---- MODULE Spec2Model ----
(***************************************************************************)
(* Audiogram OCR pipeline of hearing-test-tracker                          *)
(* (backend/ocr/jacoti_parser.py and the stages it calls).                 *)
(*                                                                         *)
(* Number representation.  The code computes with IEEE doubles; the model  *)
(* uses integers with fixed units:                                         *)
(*   - log10 of a frequency : micro-decades (1.806180 -> 1806180)          *)
(*   - a frequency before snapping : milli-Hz (64 Hz -> 64000)             *)
(*   - threshold_db : tenths of a dB, the result of round(., 1)            *)
(*   - confidence : hundredths, the result of round(., 2)                  *)
(* PosInf, NegInf and NaN stand for the doubles of those names.  PosInf    *)
(* in the frequency domain also stands for every double above 2^67, where  *)
(* subtracting a standard frequency returns the double itself.             *)
(***************************************************************************)
EXTENDS Integers, Sequences, FiniteSets, TLC

\* ------------------------------------------------------------------ bounds
MaxBoundX == 3
MaxBoundY == 2
MaxX == 8
MaxY == 2
MaxMarkers == 2
MaxEarLen == 2
MaxExpected == 2

\* ------------------------------------------------------- program constants
STANDARD_FREQUENCIES == <<64, 125, 250, 500, 1000, 2000, 4000, 8000, 16000>>

db_min == 0
db_max == 120

PosInf == 2000000000
NegInf == -2000000000
NaN == 2000000001

\* np.log10(STANDARD_FREQUENCIES[0]) and np.log10(STANDARD_FREQUENCIES[-1])
Log10Table == [f \in {64, 16000} |-> IF f = 64 THEN 1806180 ELSE 4204120]

log10(f) == Log10Table[f]

\* 10^(j/100) for j = 0..100, scaled by 10^5
Pow10Table ==
  <<100000, 102329, 104713, 107152, 109648, 112202, 114815, 117490, 120226,
    123027, 125893, 128825, 131826, 134896, 138038, 141254, 144544, 147911,
    151356, 154882, 158489, 162181, 165959, 169824, 173780, 177828, 181970,
    186209, 190546, 194984, 199526, 204174, 208930, 213796, 218776, 223872,
    229087, 234423, 239883, 245471, 251189, 257040, 263027, 269153, 275423,
    281838, 288403, 295121, 301995, 309030, 316228, 323594, 331131, 338844,
    346737, 354813, 363078, 371535, 380189, 389045, 398107, 407380, 416869,
    426580, 436516, 446684, 457088, 467735, 478630, 489779, 501187, 512861,
    524807, 537032, 549541, 562341, 575440, 588844, 602560, 616595, 630957,
    645654, 660693, 676083, 691831, 707946, 724436, 741310, 758578, 776247,
    794328, 812831, 831764, 851138, 870964, 891251, 912011, 933254, 954993,
    977237, 1000000>>

\* log10(2^67): above it a double absorbs every standard frequency
AbsorbLog == 20169010
\* doubles of 10^6 Hz and more, below 2^67, are represented by 10^6 Hz
HugeLog == 6000000
HugeMilliHz == 1000000000
\* below 10^-3 Hz the value is 0 milli-Hz
TinyLog == -3000000

Abs(n) == IF n < 0 THEN -n ELSE n

Min2(a, b) == IF a <= b THEN a ELSE b

IPow10(e) == IF e = 0 THEN 1 ELSE IF e = 1 THEN 10 ELSE IF e = 2 THEN 100
             ELSE IF e = 3 THEN 1000 ELSE IF e = 4 THEN 10000 ELSE 100000

\* 10 ** log_freq: micro-decades to milli-Hz (table lookup with linear
\* interpolation inside each hundredth of a decade)
Pow10(lf) ==
  IF lf = NaN THEN NaN
  ELSE IF lf > AbsorbLog THEN PosInf
  ELSE IF lf >= HugeLog THEN HugeMilliHz
  ELSE IF lf < TinyLog THEN 0
  ELSE LET d == lf \div 1000000
           fr == lf - d * 1000000
           j == fr \div 10000
           r == fr - j * 10000
           m == Pow10Table[j + 1]
                + ((Pow10Table[j + 2] - Pow10Table[j + 1]) * r) \div 10000
           e == d - 2
       IN IF e >= 0 THEN m * IPow10(e) ELSE m \div IPow10(-e)

\* round(num/den) to the nearest integer, ties to even (Python's round)
RoundHalfEven(num, den) ==
  LET q == num \div den
      r == num - q * den
  IN IF 2 * r < den THEN q
     ELSE IF 2 * r > den THEN q + 1
     ELSE IF q % 2 = 0 THEN q ELSE q + 1

\* --------------------------------------------------- coordinate_transformer
\* abs(freq - sf) on doubles: NaN stays NaN, a double above 2^67 is unchanged
FloatAbsDiff(freq, sf) ==
  IF freq = NaN THEN NaN
  ELSE IF freq = PosInf THEN PosInf
  ELSE Abs(freq - sf * 1000)

RECURSIVE SeqMin(_)
SeqMin(s) == IF Len(s) = 1 THEN s[1] ELSE Min2(s[1], SeqMin(Tail(s)))

\* list.index(v): the first position holding v
FirstIndex(s, v) == CHOOSE i \in 1..Len(s) : s[i] = v /\ \A k \in 1..(i - 1) : s[k] # v

\* faulty variant: the computed frequency is truncated to whole Hz and not snapped
snap_without_snapping(freq) == freq \div 1000

snap_to_standard_frequency(freq) ==
  LET differences == [i \in 1..Len(STANDARD_FREQUENCIES) |->
                        FloatAbsDiff(freq, STANDARD_FREQUENCIES[i])]
      min_index == FirstIndex(differences, SeqMin(differences))
  IN STANDARD_FREQUENCIES[min_index]

\* faulty variant: the height of the graph is taken to be y_max, not y_max - y_min
calibrate_axes_height_from_origin(graph_bounds) ==
  LET freq_min == log10(STANDARD_FREQUENCIES[1])
      freq_max == log10(STANDARD_FREQUENCIES[Len(STANDARD_FREQUENCIES)])
      x_range == graph_bounds.x_max - graph_bounds.x_min
      y_range == graph_bounds.y_max
  IN IF y_range = 0
     THEN [ok |-> FALSE, error |-> "ZeroDivisionError: division by zero"]
     ELSE [ok |-> TRUE,
           x_min |-> graph_bounds.x_min, x_max |-> graph_bounds.x_max,
           y_min |-> graph_bounds.y_min, y_max |-> graph_bounds.y_max,
           freq_min |-> freq_min,
           freq_scale |-> [num |-> freq_max - freq_min, den |-> x_range],
           db_scale |-> [num |-> db_max - db_min, den |-> y_range]]

\* a scale factor is kept as the quotient num/den; den = 0 is the double inf
\* that numpy's division by zero returns
calibrate_axes(graph_bounds) ==
  LET freq_min == log10(STANDARD_FREQUENCIES[1])
      freq_max == log10(STANDARD_FREQUENCIES[Len(STANDARD_FREQUENCIES)])
      x_range == graph_bounds.x_max - graph_bounds.x_min
      y_range == graph_bounds.y_max - graph_bounds.y_min
  IN IF y_range = 0
     THEN [ok |-> FALSE, error |-> "ZeroDivisionError: division by zero"]
     ELSE [ok |-> TRUE,
           x_min |-> graph_bounds.x_min, x_max |-> graph_bounds.x_max,
           y_min |-> graph_bounds.y_min, y_max |-> graph_bounds.y_max,
           freq_min |-> freq_min,
           freq_scale |-> [num |-> freq_max - freq_min, den |-> x_range],
           db_scale |-> [num |-> db_max - db_min, den |-> y_range]]

\* x_offset * freq_scale, then freq_min + it
LogFreq(x_offset, calibration) ==
  LET s == calibration.freq_scale
  IN IF s.den = 0
     THEN (IF x_offset = 0 THEN NaN ELSE IF x_offset > 0 THEN PosInf ELSE NegInf)
     ELSE IF s.den > 0
          THEN calibration.freq_min + (x_offset * s.num) \div s.den
          ELSE calibration.freq_min + ((-x_offset) * s.num) \div (-s.den)

\* faulty variant: the threshold is clamped to [db_min, db_max]
ThresholdDb_clamped(y_offset, calibration) ==
  LET s == calibration.db_scale
      t == IF s.den > 0
           THEN RoundHalfEven(y_offset * s.num * 10, s.den)
           ELSE RoundHalfEven((-y_offset) * s.num * 10, -s.den)
  IN IF t < 10 * db_min THEN 10 * db_min ELSE IF t > 10 * db_max THEN 10 * db_max ELSE t

\* round(y_offset * db_scale, 1) in tenths of a dB
ThresholdDb(y_offset, calibration) ==
  LET s == calibration.db_scale
  IN IF s.den > 0
     THEN RoundHalfEven(y_offset * s.num * 10, s.den)
     ELSE RoundHalfEven((-y_offset) * s.num * 10, -s.den)

ConvertMarker(marker, calibration) ==
  LET x_offset == marker.x - calibration.x_min
      log_freq == LogFreq(x_offset, calibration)
      frequency_hz == Pow10(log_freq)
      y_offset == marker.y - calibration.y_min
  IN [frequency_hz |-> snap_to_standard_frequency(frequency_hz),
      threshold_db |-> ThresholdDb(y_offset, calibration)]

pixels_to_audiogram_values(markers, calibration) ==
  [i \in 1..Len(markers) |-> ConvertMarker(markers[i], calibration)]

\* ------------------------------------------------------------ jacoti_parser
RECURSIVE Frequencies(_)
Frequencies(ear) ==
  IF ear = <<>> THEN {} ELSE {Head(ear).frequency_hz} \cup Frequencies(Tail(ear))

\* faulty variant: the validity gate fails when there is no measurement at all
ValidDb_nonempty(ear) ==
  ear # <<>> /\ \A i \in 1..Len(ear) : 0 <= ear[i].threshold_db /\ ear[i].threshold_db <= 1200

\* thresholds are in tenths of a dB: 0 <= threshold_db <= 120
ValidDb(ear) == \A i \in 1..Len(ear) : 0 <= ear[i].threshold_db /\ ear[i].threshold_db <= 1200

\* faulty variant: the per-ear counts are not capped at expected_count
calculate_confidence_uncapped(left_ear, right_ear, expected_count) ==
  LET left_count == Len(left_ear)
      right_count == Len(right_ear)
      count_score == 25 * left_count + 25 * right_count
      unique_freqs == Cardinality(Frequencies(left_ear \o right_ear))
      freq_score == 25 * Min2(unique_freqs, expected_count)
      valid_db == ValidDb(left_ear \o right_ear)
      db_score == IF valid_db THEN 25 * expected_count ELSE 0
  IN RoundHalfEven(count_score + freq_score + db_score, expected_count)

\* faulty variant: the coverage term counts the frequencies of the left ear only
calculate_confidence_left_coverage(left_ear, right_ear, expected_count) ==
  LET left_count == Len(left_ear)
      right_count == Len(right_ear)
      count_score == 25 * Min2(left_count, expected_count)
                     + 25 * Min2(right_count, expected_count)
      unique_freqs == Cardinality(Frequencies(left_ear))
      freq_score == 25 * Min2(unique_freqs, expected_count)
      valid_db == ValidDb(left_ear \o right_ear)
      db_score == IF valid_db THEN 25 * expected_count ELSE 0
  IN RoundHalfEven(count_score + freq_score + db_score, expected_count)

\* the score in hundredths; the four terms are summed over the common
\* denominator expected_count before round(score, 2)
calculate_confidence(left_ear, right_ear, expected_count) ==
  LET left_count == Len(left_ear)
      right_count == Len(right_ear)
      count_score == 25 * Min2(left_count, expected_count)
                     + 25 * Min2(right_count, expected_count)
      unique_freqs == Cardinality(Frequencies(left_ear \o right_ear))
      freq_score == 25 * Min2(unique_freqs, expected_count)
      valid_db == ValidDb(left_ear \o right_ear)
      db_score == IF valid_db THEN 25 * expected_count ELSE 0
  IN RoundHalfEven(count_score + freq_score + db_score, expected_count)

\* ---------------------------------------------------------- image_processor
\* An image is what the stages can observe of a pixel buffer: its shape, the
\* external contours of its thresholded version (area and bounding
\* rectangle), the contours of its red and blue masks (moments), and the
\* text the recognition engine reads in its footer band.
\* preprocess_image keeps the shape and yields the single-channel buffer
preprocess(image) == [w |-> image.w, h |-> image.h, contours |-> image.contours]

\* max(contours, key=cv2.contourArea): the first contour of largest area
LargestContour(contours) ==
  LET i == CHOOSE k \in 1..Len(contours) :
             /\ \A n \in 1..Len(contours) : contours[n].area <= contours[k].area
             /\ \A n \in 1..(k - 1) : contours[n].area < contours[k].area
  IN contours[i]

\* faulty variant: the far corner taken as the last pixel of the rectangle
extract_graph_region_last_pixel(image) ==
  IF image.contours = <<>>
  THEN [x_min |-> 0, x_max |-> image.w - 1, y_min |-> 0, y_max |-> image.h - 1]
  ELSE LET c == LargestContour(image.contours)
       IN [x_min |-> c.x, x_max |-> c.x + c.w - 1, y_min |-> c.y, y_max |-> c.y + c.h - 1]

\* cv2.boundingRect gives a width and a height of at least one pixel
extract_graph_region(image) ==
  IF image.contours = <<>>
  THEN [x_min |-> 0, x_max |-> image.w, y_min |-> 0, y_max |-> image.h]
  ELSE LET c == LargestContour(image.contours)
       IN [x_min |-> c.x, x_max |-> c.x + c.w, y_min |-> c.y, y_max |-> c.y + c.h]

\* ---------------------------------------------------------- marker_detector
\* int(M['m10'] / M['m00']) and int(M['m01'] / M['m00']) of the contours
\* whose m00 is positive, in contour order
RECURSIVE Centroids(_)
Centroids(contours) ==
  IF contours = <<>> THEN <<>>
  ELSE LET M == Head(contours)
       IN IF M.m00 > 0
          THEN <<[x |-> M.m10 \div M.m00, y |-> M.m01 \div M.m00]>> \o Centroids(Tail(contours))
          ELSE Centroids(Tail(contours))

detect_red_circles(image) == Centroids(image.red)

\* faulty variant: a mask without markers yields a marker at the origin
detect_blue_markers_origin_when_none(image) ==
  IF Centroids(image.blue) = <<>> THEN <<[x |-> 0, y |-> 0]>> ELSE Centroids(image.blue)

detect_blue_markers(image) == Centroids(image.blue)

\* faulty variant: the two colour selectors are exchanged
detect_markers_by_color_swapped(image, color) ==
  IF color = "red" THEN detect_blue_markers(image) ELSE detect_red_circles(image)

detect_markers_by_color(image, color) ==
  IF color = "red" THEN detect_red_circles(image) ELSE detect_blue_markers(image)

\* ----------------------------------------------------------- text_extractor
\* A text is a sequence of tokens separated by single blanks: the caption
\* prefix "Made with" (any letter case), a word, a dash (hyphen or en-dash),
\* a date (four, two and two digits with separators - or /), a time (H:MM)
\* and extra white space.
\* Python's None is the text NoneText.
NoneText == <<[k |-> "None", v |-> "None"]>>
UnknownText == <<[k |-> "word", v |-> "Unknown"]>>
JacotiText == <<[k |-> "word", v |-> "Jacoti"]>>

\* match.group(2).replace('/', '-')
NormaliseDate(tok) == [k |-> "date", y |-> tok.y, m |-> tok.m, d |-> tok.d, s1 |-> "-", s2 |-> "-"]

\* extra white space between two tokens
Blank == [k |-> "blank", v |-> " "]

\* the first token after position i that is not white space, 0 when none
NextNonBlank(text, i) ==
  LET S == {k \in (i + 1)..Len(text) : text[k].k # "blank"}
  IN IF S = {} THEN 0 ELSE CHOOSE k \in S : \A m \in S : k <= m

\* faulty variant: the device text keeps the white space around it
Strip_nothing(s) == s

\* str.strip()
RECURSIVE Strip(_)
Strip(s) ==
  IF s = <<>> THEN <<>>
  ELSE IF Head(s).k = "blank" THEN Strip(Tail(s))
  ELSE IF s[Len(s)].k = "blank" THEN Strip(SubSeq(s, 1, Len(s) - 1))
  ELSE s

\* the dash, \s*(\d{4}[-/]\d{2}[-/]\d{2})\s+(\d{1,2}:\d{2}) with the dash at j
DateAfter(text, j) == NextNonBlank(text, j)
TimeAfter(text, j) == IF DateAfter(text, j) = 0 THEN 0 ELSE NextNonBlank(text, DateAfter(text, j))

\* the caption template matched with the prefix at i and the dash at j
FullMatchAt(text, i, j) ==
  /\ text[i].k = "made"
  /\ j > i
  /\ j <= Len(text)
  /\ text[j].k = "dash"
  /\ DateAfter(text, j) # 0
  /\ text[DateAfter(text, j)].k = "date"
  /\ TimeAfter(text, j) # 0
  /\ text[TimeAfter(text, j)].k = "time"

\* the dash that ends group 1 for the prefix at i, 0 when the template does
\* not match there: \s+ takes all the white space after the prefix and (.+?)
\* stops at the first dash after its first token that the rest of the
\* template follows; failing that, \s+ gives back one blank to (.+?) when
\* the first token is such a dash
DashFor(text, i) ==
  LET p == NextNonBlank(text, i)
      later == {j \in (p + 1)..Len(text) : FullMatchAt(text, i, j)}
  IN IF text[i].k # "made" \/ p = 0 THEN 0
     ELSE IF later # {} THEN CHOOSE j \in later : \A m \in later : j <= m
     ELSE IF p >= i + 2 /\ FullMatchAt(text, i, p) THEN p
     ELSE 0

\* faulty variant: the date-only scan is tried before the caption template
parse_jacoti_footer_date_first(footer_text) ==
  LET n == Len(footer_text)
      starts == {i \in 1..n : DashFor(footer_text, i) # 0}
      dates == {i \in 1..n : footer_text[i].k = "date"}
  IN IF dates # {}
     THEN LET i == CHOOSE a \in dates : \A b \in dates : a <= b
          IN [matched |-> TRUE,
              date |-> <<NormaliseDate(footer_text[i])>>,
              time |-> NoneText,
              device |-> UnknownText,
              location |-> UnknownText]
     ELSE [matched |-> FALSE]

\* re.search takes the leftmost prefix the template matches at
parse_jacoti_footer(footer_text) ==
  LET n == Len(footer_text)
      starts == {i \in 1..n : DashFor(footer_text, i) # 0}
      dates == {i \in 1..n : footer_text[i].k = "date"}
  IN IF starts # {}
     THEN LET i == CHOOSE a \in starts : \A b \in starts : a <= b
              j == DashFor(footer_text, i)
              device == Strip(SubSeq(footer_text, i + 1, j - 1))
          IN [matched |-> TRUE,
              date |-> <<NormaliseDate(footer_text[DateAfter(footer_text, j)])>>,
              time |-> <<footer_text[TimeAfter(footer_text, j)]>>,
              device |-> device,
              location |-> device]
     ELSE IF dates # {}
     THEN LET i == CHOOSE a \in dates : \A b \in dates : a <= b
          IN [matched |-> TRUE,
              date |-> <<NormaliseDate(footer_text[i])>>,
              time |-> NoneText,
              device |-> UnknownText,
              location |-> UnknownText]
     ELSE [matched |-> FALSE]

\* int(height * 0.1)
FooterHeight(height) == height \div 10

\* text.strip() on what the recognition engine read
extract_text_from_region(engine_text) == Strip(engine_text)

\* faulty variant: the raw text is dropped when nothing was parsed
MetadataOfText_parsed_only(footer_text) ==
  LET parsed_metadata == parse_jacoti_footer(footer_text)
  IN IF parsed_metadata.matched
     THEN [ok |-> TRUE, date |-> parsed_metadata.date, time |-> parsed_metadata.time,
           device |-> parsed_metadata.device, location |-> parsed_metadata.location,
           raw_footer_text |-> footer_text]
     ELSE [ok |-> TRUE, date |-> NoneText, time |-> NoneText,
           device |-> NoneText, location |-> NoneText,
           raw_footer_text |-> <<>>]

\* extract_jacoti_metadata from the recognised text on: the four fields
\* start as None and are updated from what the parser returned
MetadataOfText(footer_text) ==
  LET parsed_metadata == parse_jacoti_footer(footer_text)
  IN IF parsed_metadata.matched
     THEN [ok |-> TRUE, date |-> parsed_metadata.date, time |-> parsed_metadata.time,
           device |-> parsed_metadata.device, location |-> parsed_metadata.location,
           raw_footer_text |-> footer_text]
     ELSE [ok |-> TRUE, date |-> NoneText, time |-> NoneText,
           device |-> NoneText, location |-> NoneText,
           raw_footer_text |-> footer_text]

\* extract_jacoti_metadata once the image is loaded: an empty footer band
\* makes cv2.cvtColor raise
MetadataOf(image) ==
  IF FooterHeight(image.h) = 0
  THEN [ok |-> FALSE, type |-> "cv2.error", msg |-> "!_src.empty() in function 'cvtColor'",
        path |-> "none"]
  ELSE MetadataOfText(extract_text_from_region(image.footer))

\* x or default
OrDefault(x, default) == IF x = NoneText \/ x = <<>> THEN default ELSE x

build_metadata(extracted_metadata) ==
  [location |-> OrDefault(extracted_metadata.location, UnknownText),
   device |-> OrDefault(extracted_metadata.device, JacotiText),
   time |-> extracted_metadata.time,
   raw_footer_text |-> extracted_metadata.raw_footer_text]

\* faulty variant: the returned dictionary lacks its metadata part
build_result_without_metadata(test_date, left_ear_data_, right_ear_data_, metadata, confidence_) ==
  [test_date |-> test_date,
   left_ear |-> left_ear_data_,
   right_ear |-> right_ear_data_,
   confidence |-> confidence_]

build_result(test_date, left_ear_data_, right_ear_data_, metadata, confidence_) ==
  [test_date |-> test_date,
   left_ear |-> left_ear_data_,
   right_ear |-> right_ear_data_,
   metadata |-> metadata,
   confidence |-> confidence_]

\* faulty variant: the message of the ValueError does not name the file
CannotReadImage_without_path(path) ==
  [ok |-> FALSE, type |-> "ValueError", msg |-> "Cannot read image", path |-> "none"]

\* the ValueError raised when cv2.imread returns None
CannotReadImage(path) ==
  [ok |-> FALSE, type |-> "ValueError", msg |-> "Cannot read image", path |-> path]

\* ---------------------------------------------------------------- variables
VARIABLES
  file,               \* what cv2.imread finds at image_path: 0 (nothing readable) or an index of Images
  pc,                 \* position of parse_jacoti_audiogram, or "returned" / "raised" / "idle"
  loads,              \* what each cv2.imread of the invocation returned, in order
  ran,                \* the stages that ran to completion, in order
  color_image,
  processed,
  graph_bounds,
  red_markers,
  blue_markers,
  calibration,
  right_ear_data,
  left_ear_data,
  confidence,
  extracted_metadata,
  result,             \* the returned dictionary
  error,              \* the raised exception
  t_pc,            \* direct call of the transformer: "idle", "calibrated", "raised", "converted"
  t_graph_bounds,  \* argument of calibrate_axes
  t_calibration,   \* what calibrate_axes returned or raised
  t_markers,       \* argument of pixels_to_audiogram_values
  t_values,        \* its result
  c_pc,            \* direct call of _calculate_confidence: "idle", "scored"
  c_left_ear,
  c_right_ear,
  c_expected_count,
  c_confidence,
  f_pc,            \* direct call of the footer parser: "idle", "text", "parsed", "extracted"
  f_text,          \* the text handed to parse_jacoti_footer, or read by the recognition engine
  f_parsed,        \* what parse_jacoti_footer returned
  f_metadata,      \* what extract_jacoti_metadata returned
  k_file,                  \* concurrent invocations: what each finds at its own image_path
  k_pc,                    \* position of each invocation
  k_frames,                \* the local variables of each call frame
  k_result,                \* what each invocation returned
  k_error,                 \* what each invocation raised
  k_standard_frequencies,  \* the module-level list backend.config.STANDARD_FREQUENCIES
  w_users,         \* web application: the rows of table user, in insertion order
  w_tests,         \* the rows of hearing_test, each with its audiogram_measurement rows
  w_files,         \* the files in the audiogram directory
  w_storage,       \* the rate limiter's counter of the upload endpoint for the client
  w_uploads,       \* the statuses answered to the client's uploads of the current window
  w_response,      \* the last request and its response
  w_ocr,           \* what parse_jacoti_audiogram returns or raises on each content of a saved file
  w_limiter,       \* the attribute limiter of the application
  s_pc,            \* direct call of _snap_to_standard_frequency: position
  s_freq,          \* its argument, in thousandths of a Hz
  s_result,        \* what it returned
  r_pc,            \* the wrapper of rate_limit in concurrent requests: position of each
  r_current,       \* the local variable current of each
  r_storage,       \* the counter the limiter's storage keeps for the key
  r_admitted,      \* how many requests of the window reached the wrapped function
  r_limited        \* how many were answered 429

pvars == <<file, pc, loads, ran, color_image, processed, graph_bounds, red_markers,
           blue_markers, calibration, right_ear_data, left_ear_data, confidence,
           extracted_metadata, result, error>>
tvars == <<t_pc, t_graph_bounds, t_calibration, t_markers, t_values>>
cvars == <<c_pc, c_left_ear, c_right_ear, c_expected_count, c_confidence>>
fvars == <<f_pc, f_text, f_parsed, f_metadata>>
kvars == <<k_file, k_pc, k_frames, k_result, k_error, k_standard_frequencies>>
wvars == <<w_users, w_tests, w_files, w_storage, w_uploads, w_response, w_ocr, w_limiter>>
svars == <<s_pc, s_freq, s_result>>
rvars == <<r_pc, r_current, r_storage, r_admitted, r_limited>>

NoCalibration == [ok |-> FALSE, error |-> "not called"]

\* ------------------------------------- direct calls of the transformer
GraphBoundsInputs ==
  {[x_min |-> a, x_max |-> b, y_min |-> c, y_max |-> d] :
     a \in 0..1, b \in 0..MaxBoundX, c \in 0..1, d \in 0..MaxBoundY}

MarkerPoints == {[x |-> a, y |-> b] : a \in 0..MaxX, b \in 0..MaxY}

RECURSIVE SeqsUpTo(_, _)
SeqsUpTo(S, n) ==
  IF n = 0 THEN {<<>>}
  ELSE LET shorter == SeqsUpTo(S, n - 1)
       IN shorter \cup {Append(s, e) : s \in {q \in shorter : Len(q) = n - 1}, e \in S}

TInit ==
  /\ t_pc = "idle"
  /\ t_graph_bounds \in {b \in GraphBoundsInputs : b.x_max >= b.x_min /\ b.y_max >= b.y_min}
  /\ t_calibration = NoCalibration
  /\ t_markers = <<>>
  /\ t_values = <<>>

TIdle ==
  /\ t_pc = "done"
  /\ t_graph_bounds = [x_min |-> 0, x_max |-> 1, y_min |-> 0, y_max |-> 1]
  /\ t_calibration = NoCalibration
  /\ t_markers = <<>>
  /\ t_values = <<>>

CallCalibrateAxes ==
  /\ t_pc = "idle"
  /\ t_calibration' = calibrate_axes(t_graph_bounds)
  /\ t_pc' = IF t_calibration'.ok THEN "calibrated" ELSE "raised"
  /\ UNCHANGED <<t_graph_bounds, t_markers, t_values>>

CallPixelsToAudiogramValues ==
  /\ t_pc = "calibrated"
  /\ \E markers \in SeqsUpTo(MarkerPoints, MaxMarkers) :
       /\ t_markers' = markers
       /\ t_values' = pixels_to_audiogram_values(markers, t_calibration)
  /\ t_pc' = "converted"
  /\ UNCHANGED <<t_graph_bounds, t_calibration>>

\* ------------------------------------- direct calls of the confidence scorer
ConfFrequencies == {STANDARD_FREQUENCIES[1], STANDARD_FREQUENCIES[2]}
ConfThresholds == {-1, 0, 1200, 1201}
ConfMeasurements ==
  {[frequency_hz |-> f, threshold_db |-> t] : f \in ConfFrequencies, t \in ConfThresholds}
ExpectedCounts == (1..MaxExpected) \cup {9}

CInit ==
  /\ c_pc = "idle"
  /\ c_left_ear \in SeqsUpTo(ConfMeasurements, MaxEarLen)
  /\ c_right_ear \in SeqsUpTo(ConfMeasurements, MaxEarLen)
  /\ c_expected_count \in ExpectedCounts
  /\ c_confidence = -1

CIdle ==
  /\ c_pc = "done"
  /\ c_left_ear = <<>>
  /\ c_right_ear = <<>>
  /\ c_expected_count = 9
  /\ c_confidence = -1

CallCalculateConfidence ==
  /\ c_pc = "idle"
  /\ c_confidence' = calculate_confidence(c_left_ear, c_right_ear, c_expected_count)
  /\ c_pc' = "scored"
  /\ UNCHANGED <<c_left_ear, c_right_ear, c_expected_count>>

\* --------------------------------------------------- parse_jacoti_audiogram
ImagePath == "uploads/audiogram.jpg"

Dot(x, y) == [m00 |-> 4, m10 |-> 4 * x + 1, m01 |-> 4 * y + 2]
Speck == [m00 |-> 0, m10 |-> 0, m01 |-> 0]
Word(v) == [k |-> "word", v |-> v]
DateTok(s1, s2) == [k |-> "date", y |-> "2024", m |-> "12", d |-> "17", s1 |-> s1, s2 |-> s2]

Caption == <<[k |-> "made", v |-> "Made with"], Word("Jacoti"), Word("Hearing"), Word("Center"),
             [k |-> "dash", v |-> "-"], DateTok("-", "-"), [k |-> "time", v |-> "12:24"]>>
NoisyCaption == <<[k |-> "made", v |-> "MADE WITH"], Word("Jacoti"),
                  [k |-> "dash", v |-> "en-dash"], DateTok("/", "/"), [k |-> "time", v |-> "9:05"]>>
DateOnly == <<Word("Some"), Word("other"), Word("text"), DateTok("-", "-"), Word("more"), Word("text")>>
NoDate == <<Word("Invalid"), Word("footer"), Word("text")>>

\* the files the invocation may find: a chart, a blank page, an image lower
\* than ten pixels, a chart whose largest contour is one pixel wide, a
\* chart with markers outside the graph rectangle, and a tall chart with a
\* marker one pixel above and one a pixel below the graph rectangle
Images ==
  << [w |-> 8, h |-> 20,
      contours |-> <<[area |-> 1, x |-> 0, y |-> 0, w |-> 1, h |-> 1],
                     [area |-> 60, x |-> 1, y |-> 2, w |-> 6, h |-> 12]>>,
      red |-> <<Dot(1, 2), Dot(3, 5), Speck, Dot(7, 14)>>,
      blue |-> <<Dot(2, 4), Dot(5, 8)>>,
      footer |-> Caption],
     [w |-> 8, h |-> 20, contours |-> <<>>, red |-> <<>>, blue |-> <<>>, footer |-> NoDate],
     [w |-> 4, h |-> 5,
      contours |-> <<[area |-> 4, x |-> 1, y |-> 1, w |-> 2, h |-> 2]>>,
      red |-> <<Dot(2, 2)>>, blue |-> <<>>, footer |-> Caption],
     [w |-> 10, h |-> 12,
      contours |-> <<[area |-> 0, x |-> 0, y |-> 0, w |-> 1, h |-> 10]>>,
      red |-> <<Dot(1, 1), Dot(9, 1)>>, blue |-> <<Dot(0, 0)>>, footer |-> DateOnly],
     [w |-> 8, h |-> 20,
      contours |-> <<[area |-> 20, x |-> 2, y |-> 2, w |-> 4, h |-> 4]>>,
      red |-> <<Dot(3, 10)>>, blue |-> <<Dot(0, 0), Dot(3, 3)>>, footer |-> NoisyCaption],
     [w |-> 8, h |-> 2500,
      contours |-> <<[area |-> 9604, x |-> 1, y |-> 1, w |-> 4, h |-> 2401]>>,
      red |-> <<Dot(2, 0)>>, blue |-> <<Dot(3, 2403)>>, footer |-> Caption] >>

FileContents == 0..Len(Images)

NoBuffer == [w |-> 0, h |-> 0, contours |-> <<>>]
NoBounds == [x_min |-> 0, x_max |-> 0, y_min |-> 0, y_max |-> 0]
NoMetadata == [ok |-> FALSE, type |-> "none", msg |-> "none", path |-> "none"]
NoResult == [none |-> TRUE]
NoError == [ok |-> TRUE]

PInit ==
  /\ file \in FileContents
  /\ pc = "L29"
  /\ loads = <<>>
  /\ ran = <<>>
  /\ color_image = 0
  /\ processed = NoBuffer
  /\ graph_bounds = NoBounds
  /\ red_markers = <<>>
  /\ blue_markers = <<>>
  /\ calibration = NoCalibration
  /\ right_ear_data = <<>>
  /\ left_ear_data = <<>>
  /\ confidence = -1
  /\ extracted_metadata = NoMetadata
  /\ result = NoResult
  /\ error = NoError

PIdle ==
  /\ file = 0
  /\ pc = "idle"
  /\ loads = <<>>
  /\ ran = <<>>
  /\ color_image = 0
  /\ processed = NoBuffer
  /\ graph_bounds = NoBounds
  /\ red_markers = <<>>
  /\ blue_markers = <<>>
  /\ calibration = NoCalibration
  /\ right_ear_data = <<>>
  /\ left_ear_data = <<>>
  /\ confidence = -1
  /\ extracted_metadata = NoMetadata
  /\ result = NoResult
  /\ error = NoError

\* another process replaces, corrupts or removes the file while the
\* invocation runs
FileChanged ==
  /\ pc \notin {"L29", "returned", "raised", "idle"}
  /\ \E f \in FileContents : f # file /\ file' = f
  /\ UNCHANGED <<pc, loads, ran, color_image, processed, graph_bounds, red_markers,
                 blue_markers, calibration, right_ear_data, left_ear_data, confidence,
                 extracted_metadata, result, error>>

\* color_image = cv2.imread(str(image_path))
LoadColorImage ==
  /\ pc = "L29"
  /\ loads' = Append(loads, file)
  /\ IF file = 0
     THEN /\ error' = CannotReadImage(ImagePath)
          /\ pc' = "raised"
          /\ UNCHANGED <<color_image, ran>>
     ELSE /\ color_image' = file
          /\ ran' = Append(ran, "imread")
          /\ pc' = "L34"
          /\ UNCHANGED error
  /\ UNCHANGED <<file, processed, graph_bounds, red_markers, blue_markers, calibration,
                 right_ear_data, left_ear_data, confidence, extracted_metadata, result>>

\* processed = preprocess_image(image_path)
PreprocessImage ==
  /\ pc = "L34"
  /\ loads' = Append(loads, file)
  /\ IF file = 0
     THEN /\ error' = CannotReadImage(ImagePath)
          /\ pc' = "raised"
          /\ UNCHANGED <<processed, ran>>
     ELSE /\ processed' = preprocess(Images[file])
          /\ ran' = Append(ran, "preprocess_image")
          /\ pc' = "L37"
          /\ UNCHANGED error
  /\ UNCHANGED <<file, color_image, graph_bounds, red_markers, blue_markers, calibration,
                 right_ear_data, left_ear_data, confidence, extracted_metadata, result>>

ExtractGraphRegion ==
  /\ pc = "L37"
  /\ graph_bounds' = extract_graph_region(processed)
  /\ ran' = Append(ran, "extract_graph_region")
  /\ pc' = "L40"
  /\ UNCHANGED <<file, loads, color_image, processed, red_markers, blue_markers, calibration,
                 right_ear_data, left_ear_data, confidence, extracted_metadata, result, error>>

DetectRedMarkers ==
  /\ pc = "L40"
  /\ red_markers' = detect_markers_by_color(Images[color_image], "red")
  /\ ran' = Append(ran, "detect_red")
  /\ pc' = "L41"
  /\ UNCHANGED <<file, loads, color_image, processed, graph_bounds, blue_markers, calibration,
                 right_ear_data, left_ear_data, confidence, extracted_metadata, result, error>>

DetectBlueMarkers ==
  /\ pc = "L41"
  /\ blue_markers' = detect_markers_by_color(Images[color_image], "blue")
  /\ ran' = Append(ran, "detect_blue")
  /\ pc' = "L45"
  /\ UNCHANGED <<file, loads, color_image, processed, graph_bounds, red_markers, calibration,
                 right_ear_data, left_ear_data, confidence, extracted_metadata, result, error>>

CalibrateAxes ==
  /\ pc = "L45"
  /\ calibration' = calibrate_axes(graph_bounds)
  /\ IF calibration'.ok
     THEN /\ ran' = Append(ran, "calibrate_axes")
          /\ pc' = "L48"
          /\ UNCHANGED error
     ELSE /\ error' = [ok |-> FALSE, type |-> "ZeroDivisionError",
                       msg |-> "division by zero", path |-> "none"]
          /\ pc' = "raised"
          /\ UNCHANGED ran
  /\ UNCHANGED <<file, loads, color_image, processed, graph_bounds, red_markers, blue_markers,
                 right_ear_data, left_ear_data, confidence, extracted_metadata, result>>

ConvertRightEar ==
  /\ pc = "L48"
  /\ right_ear_data' = pixels_to_audiogram_values(red_markers, calibration)
  /\ ran' = Append(ran, "convert_right")
  /\ pc' = "L49"
  /\ UNCHANGED <<file, loads, color_image, processed, graph_bounds, red_markers, blue_markers,
                 calibration, left_ear_data, confidence, extracted_metadata, result, error>>

ConvertLeftEar ==
  /\ pc = "L49"
  /\ left_ear_data' = pixels_to_audiogram_values(blue_markers, calibration)
  /\ ran' = Append(ran, "convert_left")
  /\ pc' = "L52"
  /\ UNCHANGED <<file, loads, color_image, processed, graph_bounds, red_markers, blue_markers,
                 calibration, right_ear_data, confidence, extracted_metadata, result, error>>

CalculateConfidence ==
  /\ pc = "L52"
  /\ confidence' = calculate_confidence(left_ear_data, right_ear_data, 9)
  /\ ran' = Append(ran, "calculate_confidence")
  /\ pc' = "L58"
  /\ UNCHANGED <<file, loads, color_image, processed, graph_bounds, red_markers, blue_markers,
                 calibration, right_ear_data, left_ear_data, extracted_metadata, result, error>>

\* extracted_metadata = extract_jacoti_metadata(image_path)
ExtractMetadata ==
  /\ pc = "L58"
  /\ loads' = Append(loads, file)
  /\ LET outcome == IF file = 0 THEN CannotReadImage(ImagePath) ELSE MetadataOf(Images[file])
     IN IF outcome.ok
        THEN /\ extracted_metadata' = outcome
             /\ ran' = Append(ran, "extract_jacoti_metadata")
             /\ pc' = "L61"
             /\ UNCHANGED error
        ELSE /\ error' = outcome
             /\ pc' = "raised"
             /\ UNCHANGED <<extracted_metadata, ran>>
  /\ UNCHANGED <<file, color_image, processed, graph_bounds, red_markers, blue_markers,
                 calibration, right_ear_data, left_ear_data, confidence, result>>

ReturnResult ==
  /\ pc = "L61"
  /\ result' = build_result(extracted_metadata.date, left_ear_data, right_ear_data,
                            build_metadata(extracted_metadata), confidence)
  /\ pc' = "returned"
  /\ UNCHANGED <<file, loads, ran, color_image, processed, graph_bounds, red_markers,
                 blue_markers, calibration, right_ear_data, left_ear_data, confidence,
                 extracted_metadata, error>>

\* ------------------------------------------- direct calls of the footer parser
MaxTextLen == 4
MaxDeviceLen == 2

Kinds == {"made", "word", "dash", "date", "time", "blank"}

\* the two ways each kind of token is written in the texts tried
Styles == {1, 2}

Tok(kind, style) ==
  CASE kind = "made" -> [k |-> "made", v |-> IF style = 1 THEN "Made with" ELSE "MADE WITH"]
    [] kind = "word" -> Word("Jacoti")
    [] kind = "dash" -> [k |-> "dash", v |-> IF style = 1 THEN "-" ELSE "en-dash"]
    [] kind = "date" -> IF style = 1 THEN DateTok("-", "-") ELSE DateTok("/", "/")
    [] kind = "time" -> [k |-> "time", v |-> IF style = 1 THEN "12:24" ELSE "9:05"]
    [] kind = "blank" -> Blank

\* what may stand before and after a caption, and between its date and time
Contexts == {<<>>} \cup {<<k>> : k \in Kinds}
Gaps == {<<>>, <<"blank">>}

CaptionKinds ==
  {pre \o <<"made">> \o dev \o <<"dash">> \o g1 \o <<"date">> \o g2 \o <<"time">> \o post :
     pre \in Contexts, dev \in SeqsUpTo(Kinds, MaxDeviceLen), g1 \in Gaps, g2 \in Gaps,
     post \in Contexts}

FooterTexts ==
  {[i \in 1..Len(ks) |-> Tok(ks[i], st)] :
     ks \in SeqsUpTo(Kinds, MaxTextLen) \cup CaptionKinds, st \in Styles}

FInit ==
  /\ f_pc = "text"
  /\ f_text \in FooterTexts
  /\ f_parsed = NoResult
  /\ f_metadata = NoMetadata

FIdle ==
  /\ f_pc = "idle"
  /\ f_text = <<>>
  /\ f_parsed = NoResult
  /\ f_metadata = NoMetadata

\* parse_jacoti_footer(footer_text)
CallParseJacotiFooter ==
  /\ f_pc = "text"
  /\ f_parsed' = parse_jacoti_footer(f_text)
  /\ f_pc' = "parsed"
  /\ UNCHANGED <<f_text, f_metadata>>

\* extract_jacoti_metadata from the text the recognition engine read
CallExtractJacotiMetadata ==
  /\ f_pc = "text"
  /\ f_metadata' = MetadataOfText(extract_text_from_region(f_text))
  /\ f_pc' = "extracted"
  /\ UNCHANGED <<f_text, f_parsed>>

\* --------------------------------------------------- concurrent invocations
\* the caller runs one invocation per uploaded file, each on its own file
Invocations == {1, 2}

\* faulty variant: the invocations keep their local variables in one place
Frame_shared(i) == 1

\* every call of parse_jacoti_audiogram has a call frame of its own
Frame(i) == i

NoLocals == [color_image |-> 0, processed |-> NoBuffer, graph_bounds |-> NoBounds,
             red_markers |-> <<>>, blue_markers |-> <<>>, calibration |-> NoCalibration,
             right_ear_data |-> <<>>, left_ear_data |-> <<>>, confidence |-> -1,
             extracted_metadata |-> NoMetadata]

KInit ==
  /\ k_file \in [Invocations -> FileContents]
  /\ k_pc = [i \in Invocations |-> "L29"]
  /\ k_frames = [i \in Invocations |-> NoLocals]
  /\ k_result = [i \in Invocations |-> NoResult]
  /\ k_error = [i \in Invocations |-> NoError]
  /\ k_standard_frequencies = STANDARD_FREQUENCIES

KIdle ==
  /\ k_file = [i \in Invocations |-> 0]
  /\ k_pc = [i \in Invocations |-> "idle"]
  /\ k_frames = [i \in Invocations |-> NoLocals]
  /\ k_result = [i \in Invocations |-> NoResult]
  /\ k_error = [i \in Invocations |-> NoError]
  /\ k_standard_frequencies = STANDARD_FREQUENCIES

\* invocation i raises
KRaise(i, exception) ==
  /\ k_error' = [k_error EXCEPT ![i] = exception]
  /\ k_pc' = [k_pc EXCEPT ![i] = "raised"]
  /\ UNCHANGED <<k_file, k_frames, k_result, k_standard_frequencies>>

\* invocation i assigns a local variable and goes on to the next statement
KAssign(i, name, value, next) ==
  /\ k_frames' = [k_frames EXCEPT ![Frame(i)][name] = value]
  /\ k_pc' = [k_pc EXCEPT ![i] = next]
  /\ UNCHANGED <<k_file, k_result, k_error, k_standard_frequencies>>

KLoadColorImage(i) ==
  /\ k_pc[i] = "L29"
  /\ IF k_file[i] = 0
     THEN KRaise(i, CannotReadImage(ImagePath))
     ELSE KAssign(i, "color_image", k_file[i], "L34")

KPreprocessImage(i) ==
  /\ k_pc[i] = "L34"
  /\ IF k_file[i] = 0
     THEN KRaise(i, CannotReadImage(ImagePath))
     ELSE KAssign(i, "processed", preprocess(Images[k_file[i]]), "L37")

KExtractGraphRegion(i) ==
  /\ k_pc[i] = "L37"
  /\ KAssign(i, "graph_bounds", extract_graph_region(k_frames[Frame(i)].processed), "L40")

KDetectRedMarkers(i) ==
  /\ k_pc[i] = "L40"
  /\ KAssign(i, "red_markers",
             detect_markers_by_color(Images[k_frames[Frame(i)].color_image], "red"), "L41")

KDetectBlueMarkers(i) ==
  /\ k_pc[i] = "L41"
  /\ KAssign(i, "blue_markers",
             detect_markers_by_color(Images[k_frames[Frame(i)].color_image], "blue"), "L45")

KCalibrateAxes(i) ==
  /\ k_pc[i] = "L45"
  /\ LET c == calibrate_axes(k_frames[Frame(i)].graph_bounds)
     IN IF c.ok
        THEN KAssign(i, "calibration", c, "L48")
        ELSE KRaise(i, [ok |-> FALSE, type |-> "ZeroDivisionError",
                        msg |-> "division by zero", path |-> "none"])

\* the conversions read the module-level list and leave it as it is
KConvertRightEar(i) ==
  /\ k_pc[i] = "L48"
  /\ KAssign(i, "right_ear_data",
             pixels_to_audiogram_values(k_frames[Frame(i)].red_markers,
                                        k_frames[Frame(i)].calibration), "L49")

KConvertLeftEar(i) ==
  /\ k_pc[i] = "L49"
  /\ KAssign(i, "left_ear_data",
             pixels_to_audiogram_values(k_frames[Frame(i)].blue_markers,
                                        k_frames[Frame(i)].calibration), "L52")

KCalculateConfidence(i) ==
  /\ k_pc[i] = "L52"
  /\ KAssign(i, "confidence",
             calculate_confidence(k_frames[Frame(i)].left_ear_data,
                                  k_frames[Frame(i)].right_ear_data, 9), "L58")

KExtractMetadata(i) ==
  /\ k_pc[i] = "L58"
  /\ LET outcome == IF k_file[i] = 0 THEN CannotReadImage(ImagePath)
                    ELSE MetadataOf(Images[k_file[i]])
     IN IF outcome.ok
        THEN KAssign(i, "extracted_metadata", outcome, "L61")
        ELSE KRaise(i, outcome)

KReturnResult(i) ==
  /\ k_pc[i] = "L61"
  /\ LET L == k_frames[Frame(i)]
     IN k_result' = [k_result EXCEPT ![i] =
                       build_result(L.extracted_metadata.date, L.left_ear_data, L.right_ear_data,
                                    build_metadata(L.extracted_metadata), L.confidence)]
  /\ k_pc' = [k_pc EXCEPT ![i] = "returned"]
  /\ UNCHANGED <<k_file, k_frames, k_error, k_standard_frequencies>>

\* ------------------------------------------------------------ whole pipeline
\* parse_jacoti_audiogram run alone on a file: its statements in sequence
AloneOutcome(f) ==
  IF f = 0 THEN [raised |-> TRUE, error |-> CannotReadImage(ImagePath)]
  ELSE LET color == Images[f]
           bounds == extract_graph_region(preprocess(Images[f]))
           red == detect_markers_by_color(color, "red")
           blue == detect_markers_by_color(color, "blue")
           cal == calibrate_axes(bounds)
           meta == MetadataOf(Images[f])
       IN IF ~cal.ok
          THEN [raised |-> TRUE,
                error |-> [ok |-> FALSE, type |-> "ZeroDivisionError",
                           msg |-> "division by zero", path |-> "none"]]
          ELSE IF ~meta.ok THEN [raised |-> TRUE, error |-> meta]
          ELSE LET right == pixels_to_audiogram_values(red, cal)
                   left == pixels_to_audiogram_values(blue, cal)
               IN [raised |-> FALSE,
                   result |-> build_result(meta.date, left, right, build_metadata(meta),
                                           calculate_confidence(left, right, 9))]

\* ----------------------------------------------------------- authentication
\* A token is what jwt.decode can tell of it: whether it is a JWT at all,
\* whose user_id it carries, whether its signature was made with the
\* application's JWT_SECRET_KEY, and whether its exp claim has passed.
GarbageToken == [jwt |-> FALSE, user_id |-> 0, signed |-> FALSE, expired |-> FALSE]

\* generate_token(user_id): signed with the key, expiring JWT_EXPIRATION_HOURS later
generate_token(user_id) == [jwt |-> TRUE, user_id |-> user_id, signed |-> TRUE, expired |-> FALSE]

\* faulty variant: the exp claim is not verified
decode_token_ignoring_expiry(token) ==
  IF ~token.jwt \/ ~token.signed THEN [ok |-> FALSE, error |-> "Invalid token"]
  ELSE [ok |-> TRUE, user_id |-> token.user_id]

\* jwt.decode verifies the signature before the claims
decode_token(token) ==
  IF ~token.jwt \/ ~token.signed THEN [ok |-> FALSE, error |-> "Invalid token"]
  ELSE IF token.expired THEN [ok |-> FALSE, error |-> "Token has expired"]
  ELSE [ok |-> TRUE, user_id |-> token.user_id]

\* require_auth on the parts of the Authorization header (auth_header.split(),
\* empty when the header is missing): the user the request acts for, or the
\* 401 answer
require_auth(parts) ==
  IF parts = <<>> THEN [ok |-> FALSE, error |-> "Authentication required"]
  ELSE IF Len(parts) # 2 \/ parts[1] # "Bearer"
  THEN [ok |-> FALSE, error |-> "Invalid authorization header format"]
  ELSE decode_token(parts[2])

\* ---------------------------------------------------------------- validation
\* faulty variant: the MIME type is not looked at
validate_upload_file_without_mime(upload) ==
  IF upload.kind = "bad_extension" THEN [ok |-> FALSE, error |-> "File extension '.exe' not allowed. Allowed: png, jpg, jpeg, gif, pdf"]
  ELSE IF upload.kind = "empty" THEN [ok |-> FALSE, error |-> "File is empty"]
  ELSE [ok |-> TRUE, error |-> ""]

\* validate_upload_file: extension, then size, then MIME type
validate_upload_file(upload) ==
  IF upload.kind = "bad_extension" THEN [ok |-> FALSE, error |-> "File extension '.exe' not allowed. Allowed: png, jpg, jpeg, gif, pdf"]
  ELSE IF upload.kind = "empty" THEN [ok |-> FALSE, error |-> "File is empty"]
  ELSE IF upload.kind = "bad_mime" THEN [ok |-> FALSE, error |-> "Invalid file type: text/plain. Must be an image or PDF."]
  ELSE [ok |-> TRUE, error |-> ""]

\* ------------------------------------------------------ stored measurements
\* Stored thresholds are in twentieths of a dB, so that the median of two
\* one-decimal readings is exact.
RECURSIVE SortedSet(_)
SortedSet(S) ==
  IF S = {} THEN <<>>
  ELSE LET m == CHOOSE x \in S : \A y \in S : x <= y
       IN <<m>> \o SortedSet(S \ {m})

RECURSIVE SortedSeq(_)
SortedSeq(s) ==
  IF s = <<>> THEN <<>>
  ELSE LET i == CHOOSE k \in 1..Len(s) : \A n \in 1..Len(s) : s[k] <= s[n]
       IN <<s[i]>> \o SortedSeq(SubSeq(s, 1, i - 1) \o SubSeq(s, i + 1, Len(s)))

RECURSIVE ThresholdsAt(_, _)
ThresholdsAt(measurements, freq) ==
  IF measurements = <<>> THEN <<>>
  ELSE IF Head(measurements).frequency_hz = freq
       THEN <<Head(measurements).threshold_db>> \o ThresholdsAt(Tail(measurements), freq)
       ELSE ThresholdsAt(Tail(measurements), freq)

\* statistics.median
Median(thresholds) ==
  LET s == SortedSeq(thresholds)
      n == Len(s)
  IN IF n % 2 = 1 THEN s[(n + 1) \div 2] ELSE (s[n \div 2] + s[n \div 2 + 1]) \div 2

\* faulty variant: the first reading of a frequency is kept, not the median
deduplicate_measurements_first(measurements) ==
  LET freqs == SortedSet({measurements[i].frequency_hz : i \in 1..Len(measurements)})
  IN [i \in 1..Len(freqs) |->
        [frequency_hz |-> freqs[i], threshold_db |-> ThresholdsAt(measurements, freqs[i])[1]]]

\* _deduplicate_measurements
deduplicate_measurements(measurements) ==
  LET freqs == SortedSet({measurements[i].frequency_hz : i \in 1..Len(measurements)})
  IN [i \in 1..Len(freqs) |->
        [frequency_hz |-> freqs[i], threshold_db |-> Median(ThresholdsAt(measurements, freqs[i]))]]

\* the measurements of the pipeline (tenths of a dB) as the route handles them
InTwentieths(ear) ==
  [i \in 1..Len(ear) |-> [frequency_hz |-> ear[i].frequency_hz, threshold_db |-> 2 * ear[i].threshold_db]]

\* ---------------------------------------------------------- web application
Emails == {"a@example.com", "b@example.com"}
Passwords == {"", "secret"}
TestIds == {"t1", "t2"}
MaxBulkFiles == 2

\* the uploads of one window that WebSpec follows; LimitSpec follows them all
MaxBurst == 1

\* '10 per minute' on the upload route
limit_count == 10

\* config.OCR_CONFIDENCE_THRESHOLD, in hundredths
OCR_CONFIDENCE_THRESHOLD == 80

\* faulty variant: the comparison is with 0.7
needs_review_lenient(ocr_confidence) == ocr_confidence < 70

\* 'needs_review': ocr_result['confidence'] < OCR_CONFIDENCE_THRESHOLD
needs_review(ocr_confidence) == ocr_confidence < OCR_CONFIDENCE_THRESHOLD

\* what create_app leaves in the attribute limiter of the application: it
\* creates no limiter and sets no such attribute
app_limiter == [present |-> FALSE]

\* the files a client may send in a bulk upload: a disallowed extension, an
\* empty file, a file that is not an image or a PDF, a file for which
\* file.save fails to open its destination, and .jpg files: one that
\* cv2.imread cannot read and two charts
UploadContents == {0, 1, 4}

BulkUploads ==
  {[kind |-> k, content |-> 0] : k \in {"bad_extension", "empty", "bad_mime", "unsaveable"}}
    \cup {[kind |-> "image", content |-> f] : f \in UploadContents}

\* the files of a single upload: those, and a file for which file.save
\* fails while it writes (the disk is full): open(dst, 'wb') has created
\* the destination by then and nothing removes it
Uploads == BulkUploads \cup {[kind |-> "truncated", content |-> 0]}

\* the copies without a row that the audiogram directory is let to hold
MaxOrphans == 1

BulkLists == UNION {[1..n -> BulkUploads] : n \in 0..MaxBulkFiles}

NowText == <<Word("now")>>
ReviewedText == <<Word("reviewed")>>

\* the readings a reviewer may send for an ear, in twentieths of a dB
EarInputs ==
  { <<[frequency_hz |-> 1000, threshold_db |-> 500],
      [frequency_hz |-> 250, threshold_db |-> 300],
      [frequency_hz |-> 1000, threshold_db |-> 700]>>,
    <<[frequency_hz |-> 500, threshold_db |-> 400],
      [frequency_hz |-> 500, threshold_db |-> 200],
      [frequency_hz |-> 250, threshold_db |-> 502],
      [frequency_hz |-> 500, threshold_db |-> 210],
      [frequency_hz |-> 250, threshold_db |-> 500]>> }

\* the JSON bodies of a PUT: has is the set of keys present
UpdateBodies ==
  {[has |-> {"test_date", "location", "device_name", "notes", "left_ear", "right_ear"},
    test_date |-> <<DateTok("-", "-")>>, location |-> UnknownText, device_name |-> JacotiText,
    notes |-> ReviewedText, left_ear |-> l, right_ear |-> <<>>] : l \in EarInputs}
  \cup
  {[has |-> h, test_date |-> <<DateTok("-", "-")>>, location |-> NoneText,
    device_name |-> NoneText, notes |-> ReviewedText, left_ear |-> <<>>, right_ear |-> <<>>] :
     h \in {{"notes"}, {"test_date", "notes", "right_ear"}, {"test_date", "left_ear"},
           {"left_ear", "right_ear"}}}

\* data.get(key)
Get(data, key, value) == IF key \in data.has THEN value ELSE NoneText

\* the tokens a client can present: anything it makes up, and the tokens
\* generate_token issued for the users that exist, fresh or past their expiry
Tokens ==
  {GarbageToken, [jwt |-> TRUE, user_id |-> 1, signed |-> FALSE, expired |-> FALSE]}
    \cup {[generate_token(w_users[i].id) EXCEPT !.expired = e] : i \in 1..Len(w_users), e \in BOOLEAN}

\* auth_header.split() of the requests
Headers ==
  {<<>>, <<"Bearer">>}
    \cup {<<"Bearer", t>> : t \in Tokens}
    \cup {<<"bearer", generate_token(w_users[i].id)>> : i \in 1..Len(w_users)}
    \cup {<<"Bearer", generate_token(w_users[i].id), "x">> : i \in 1..Len(w_users)}

\* a request without a JSON body
NoData ==
  [has |-> {}, test_date |-> NoneText, location |-> NoneText, device_name |-> NoneText,
   notes |-> NoneText, left_ear |-> <<>>, right_ear |-> <<>>]

NoResponse ==
  [route |-> "none", parts |-> <<>>, arg |-> "none", password |-> "none", data |-> NoData,
   status |-> 0, error |-> "none", ran |-> FALSE, user_id |-> 0, body |-> <<>>]

Response(route, parts, arg, status, error_, ran_, user_id, body) ==
  [route |-> route, parts |-> parts, arg |-> arg, password |-> "none", data |-> NoData,
   status |-> status, error |-> error_, ran |-> ran_, user_id |-> user_id, body |-> body]

\* the answer to a registration: the request had no header, an email and a password
Registration(email, password, status, error_, user_id, body) ==
  [Response("register", <<>>, email, status, error_, TRUE, user_id, body)
     EXCEPT !.password = password]

\* the answer of require_auth when it rejects the request
Unauthorized(route, parts, arg) ==
  Response(route, parts, arg, 401, require_auth(parts).error, FALSE, 0, <<>>)

\* the handler of a blanket Exception registered by register_error_handlers
InternalServerError(route, parts, arg, ran_, user_id) ==
  Response(route, parts, arg, 500, "Internal server error", ran_, user_id, <<>>)

\* the database after init_db and the empty audiogram directory
WStart ==
  /\ w_users = <<>>
  /\ w_tests = {}
  /\ w_files = {}
  /\ w_storage = 0
  /\ w_uploads = <<>>
  /\ w_response = NoResponse
  /\ w_ocr = [f \in FileContents |-> AloneOutcome(f)]

\* the application as create_app returns it
WInit == WStart /\ w_limiter = app_limiter

\* the application once a limiter has been attached to it, which is what the
\* wrapper of rate_limit reads from current_app
WInitWithLimiter == WStart /\ w_limiter = [present |-> TRUE]

\* the application is not started
WIdle ==
  /\ w_users = <<>>
  /\ w_tests = {}
  /\ w_files = {}
  /\ w_storage = 0
  /\ w_uploads = <<>>
  /\ w_response = NoResponse
  /\ w_ocr = <<>>
  /\ w_limiter = app_limiter

\* faulty variant: the email is inserted without looking for it first
register_without_lookup(email, password) ==
  IF email = "" \/ password = ""
  THEN /\ w_response' = Registration(email, password, 400, "Email and password required",
                                     0, <<>>)
       /\ UNCHANGED w_users
  ELSE LET user_id == Len(w_users) + 1
       IN /\ w_users' = Append(w_users, [id |-> user_id, email |-> email])
          /\ w_response' = Registration(email, password, 201, "none", user_id,
                                        <<generate_token(user_id)>>)

\* POST /api/auth/register
register(email, password) ==
  IF email = "" \/ password = ""
  THEN /\ w_response' = Registration(email, password, 400, "Email and password required",
                                     0, <<>>)
       /\ UNCHANGED w_users
  ELSE IF \E i \in 1..Len(w_users) : w_users[i].email = email
  THEN /\ w_response' = Registration(email, password, 409, "Email already exists", 0, <<>>)
       /\ UNCHANGED w_users
  ELSE LET user_id == Len(w_users) + 1
       IN /\ w_users' = Append(w_users, [id |-> user_id, email |-> email])
          /\ w_response' = Registration(email, password, 201, "none", user_id,
                                        <<generate_token(user_id)>>)

Register ==
  /\ w_response = NoResponse
  /\ \E email \in Emails \cup {""}, password \in Passwords : register(email, password)
  /\ UNCHANGED <<w_tests, w_files, w_storage, w_uploads>>

\* faulty variant: the lookup leaves out the owner
OwnTest_of_any_user(test_id, user_id) == {t \in w_tests : t.id = test_id}

\* SELECT ... FROM hearing_test WHERE id = ? AND user_id = ?
OwnTest(test_id, user_id) == {t \in w_tests : t.id = test_id /\ t.user_id = user_id}

\* GET /api/tests
ListTests ==
  /\ w_response = NoResponse
  /\ \E parts \in Headers :
       LET auth == require_auth(parts)
       IN IF ~auth.ok THEN w_response' = Unauthorized("list", parts, "none")
          ELSE w_response' = Response("list", parts, "none", 200, "none", TRUE, auth.user_id,
                                      <<{t.id : t \in {r \in w_tests : r.user_id = auth.user_id}}>>)
  /\ UNCHANGED <<w_users, w_tests, w_files, w_storage, w_uploads>>

\* get_test(test_id) for the authenticated user, on the rows given
get_test(route, parts, test_id, user_id, tests) ==
  LET found == {t \in tests : t.id = test_id /\ t.user_id = user_id}
  IN IF found = {}
     THEN Response(route, parts, test_id, 404, "Test not found", TRUE, user_id, <<>>)
     ELSE Response(route, parts, test_id, 200, "none", TRUE, user_id, <<CHOOSE t \in found : TRUE>>)

\* GET /api/tests/<test_id>
GetTest ==
  /\ w_response = NoResponse
  /\ \E parts \in Headers, test_id \in TestIds :
       LET auth == require_auth(parts)
       IN IF ~auth.ok THEN w_response' = Unauthorized("get", parts, test_id)
          ELSE w_response' = get_test("get", parts, test_id, auth.user_id, w_tests)
  /\ UNCHANGED <<w_users, w_tests, w_files, w_storage, w_uploads>>

\* faulty variant: every statement is committed as it is executed, so the
\* UPDATE and the DELETE that precede the KeyError of a missing ear stay
update_test_autocommit(parts, test_id, user_id, data) ==
  LET found == OwnTest(test_id, user_id)
  IN IF found = {}
     THEN /\ w_response' = [Response("update", parts, test_id, 404, "Test not found", TRUE,
                                     user_id, <<>>) EXCEPT !.data = data]
          /\ UNCHANGED w_tests
     ELSE LET old == CHOOSE t \in found : TRUE
              new == [old EXCEPT !.test_date = data.test_date,
                                 !.location = Get(data, "location", data.location),
                                 !.device_name = Get(data, "device_name", data.device_name),
                                 !.notes = Get(data, "notes", data.notes),
                                 !.left_ear = IF {"left_ear", "right_ear"} \subseteq data.has
                                              THEN deduplicate_measurements(data.left_ear)
                                              ELSE <<>>,
                                 !.right_ear = IF {"left_ear", "right_ear"} \subseteq data.has
                                               THEN deduplicate_measurements(data.right_ear)
                                               ELSE <<>>]
              tests == (w_tests \ {old}) \cup {new}
          IN IF "test_date" \notin data.has
             THEN /\ w_response' = [InternalServerError("update", parts, test_id, TRUE, user_id)
                                      EXCEPT !.data = data]
                  /\ UNCHANGED w_tests
             ELSE /\ w_tests' = tests
                  /\ w_response' =
                       IF {"left_ear", "right_ear"} \subseteq data.has
                       THEN [get_test("update", parts, test_id, user_id, tests) EXCEPT !.data = data]
                       ELSE [InternalServerError("update", parts, test_id, TRUE, user_id)
                               EXCEPT !.data = data]

\* update_test once require_auth let the request through: the lookup comes
\* first, a missing key raises KeyError before the commit and the statements
\* executed until then are rolled back with the connection
update_test(parts, test_id, user_id, data) ==
  LET found == OwnTest(test_id, user_id)
  IN IF found = {}
     THEN /\ w_response' = [Response("update", parts, test_id, 404, "Test not found", TRUE,
                                     user_id, <<>>) EXCEPT !.data = data]
          /\ UNCHANGED w_tests
     ELSE IF ~({"test_date", "left_ear", "right_ear"} \subseteq data.has)
     THEN /\ w_response' = [InternalServerError("update", parts, test_id, TRUE, user_id)
                              EXCEPT !.data = data]
          /\ UNCHANGED w_tests
     ELSE LET old == CHOOSE t \in found : TRUE
              new == [old EXCEPT !.test_date = data.test_date,
                                 !.location = Get(data, "location", data.location),
                                 !.device_name = Get(data, "device_name", data.device_name),
                                 !.notes = Get(data, "notes", data.notes),
                                 !.left_ear = deduplicate_measurements(data.left_ear),
                                 !.right_ear = deduplicate_measurements(data.right_ear)]
              tests == (w_tests \ {old}) \cup {new}
          IN /\ w_tests' = tests
             /\ w_response' = [get_test("update", parts, test_id, user_id, tests)
                                 EXCEPT !.data = data]

\* PUT /api/tests/<test_id>
UpdateTest ==
  /\ w_response = NoResponse
  /\ \/ \E parts \in Headers, test_id \in TestIds :
          /\ ~require_auth(parts).ok
          /\ w_response' = Unauthorized("update", parts, test_id)
          /\ UNCHANGED w_tests
     \/ \E parts \in Headers, test_id \in TestIds, data \in UpdateBodies :
          /\ require_auth(parts).ok
          /\ update_test(parts, test_id, require_auth(parts).user_id, data)
  /\ UNCHANGED <<w_users, w_files, w_storage, w_uploads>>

\* DELETE /api/tests/<test_id>
DeleteTest ==
  /\ w_response = NoResponse
  /\ \E parts \in Headers, test_id \in TestIds :
       LET auth == require_auth(parts)
           found == OwnTest(test_id, auth.user_id)
       IN IF ~auth.ok
          THEN /\ w_response' = Unauthorized("delete", parts, test_id)
               /\ UNCHANGED <<w_tests, w_files>>
          ELSE IF found = {}
          THEN /\ w_response' = Response("delete", parts, test_id, 404, "Test not found", TRUE,
                                         auth.user_id, <<>>)
               /\ UNCHANGED <<w_tests, w_files>>
          ELSE /\ w_tests' = w_tests \ found
               /\ w_files' = w_files \ {t.image_path : t \in found}
               /\ w_response' = Response("delete", parts, test_id, 200, "none", TRUE,
                                         auth.user_id, <<>>)
  /\ UNCHANGED <<w_users, w_storage, w_uploads>>

\* the path of the saved copy: the time stamp makes it new
FreshPath(disk) == CHOOSE p \in 1..(Cardinality(disk) + 1) : p \notin disk /\ \A q \in 1..(p - 1) : q \in disk

\* _save_test_to_database: the row and its deduplicated measurements
SavedTest(test_id, ocr_result, image_path, user_id) ==
  [id |-> test_id,
   user_id |-> user_id,
   test_date |-> OrDefault(ocr_result.test_date, NowText),
   location |-> ocr_result.metadata.location,
   device_name |-> ocr_result.metadata.device,
   notes |-> NoneText,
   image_path |-> image_path,
   ocr_confidence |-> ocr_result.confidence,
   left_ear |-> deduplicate_measurements(InTwentieths(ocr_result.left_ear)),
   right_ear |-> deduplicate_measurements(InTwentieths(ocr_result.right_ear))]

NoTest == "none"

\* the dictionary returned for a file that is not stored; parsed records
\* whether parse_jacoti_audiogram was called on the saved copy
FileError(error_, status_code) ==
  [error |-> error_, status_code |-> status_code, test_id |-> NoTest, confidence |-> 0,
   needs_review |-> FALSE, parsed |-> FALSE]

\* the saved copies that no row of hearing_test refers to
Orphans(tests, disk) == disk \ {t.image_path : t \in tests}

\* _process_single_file on the rows and files given: the rows and files it
\* leaves and the dictionary it returns; fresh tells whether the call stays
\* within TestIds and MaxOrphans
process_single_file(upload, user_id, tests, disk) ==
  LET filepath == FreshPath(disk)
      valid == validate_upload_file(upload)
      ocr == w_ocr[upload.content]
      unused == TestIds \ {t.id : t \in tests}
  IN IF upload.kind = "unsaveable"
     THEN [tests |-> tests, disk |-> disk, fresh |-> TRUE,
           result |-> FileError("Failed to save file", 500)]
     ELSE IF upload.kind = "truncated"
     THEN [tests |-> tests, disk |-> disk \cup {filepath},
           fresh |-> Cardinality(Orphans(tests, disk)) < MaxOrphans,
           result |-> FileError("Failed to save file", 500)]
     ELSE IF ~valid.ok
     THEN [tests |-> tests, disk |-> disk, fresh |-> TRUE, result |-> FileError(valid.error, 400)]
     ELSE IF ocr.raised
     THEN [tests |-> tests, disk |-> disk, fresh |-> TRUE,
           result |-> [FileError(ocr.error.msg, 500) EXCEPT !.parsed = TRUE]]
     ELSE IF unused = {}
     THEN [tests |-> tests, disk |-> disk, fresh |-> FALSE, result |-> FileError("none", 0)]
     ELSE LET test_id == CHOOSE t \in unused : TRUE
          IN [tests |-> tests \cup {SavedTest(test_id, ocr.result, filepath, user_id)},
              disk |-> disk \cup {filepath},
              fresh |-> TRUE,
              result |-> [error |-> "none", status_code |-> 200, test_id |-> test_id,
                          confidence |-> ocr.result.confidence,
                          needs_review |-> needs_review(ocr.result.confidence),
                          parsed |-> TRUE]]

\* the wrapper of rate_limit around upload_test: current_app.limiter is read
\* outside the try block, so its absence is an AttributeError that the
\* blanket handler answers; with a limiter the counter is read, compared
\* and incremented
UploadOutcome(parts, upload, user_id) ==
  IF ~w_limiter.present
  THEN [tests |-> w_tests, disk |-> w_files, storage |-> w_storage, fresh |-> TRUE,
        response |-> InternalServerError("upload", parts, upload.kind, FALSE, user_id)]
  ELSE IF w_storage >= limit_count
  THEN [tests |-> w_tests, disk |-> w_files, storage |-> w_storage, fresh |-> TRUE,
        response |-> Response("upload", parts, upload.kind, 429, "Rate limit exceeded. Too many requests.", FALSE,
                              user_id, <<>>)]
  ELSE LET done == process_single_file(upload, user_id, w_tests, w_files)
       IN [tests |-> done.tests, disk |-> done.disk, storage |-> w_storage + 1,
           fresh |-> done.fresh,
           response |-> Response("upload", parts, upload.kind, done.result.status_code,
                                 done.result.error, TRUE, user_id, <<done.result>>)]

\* POST /api/tests/upload
UploadTest ==
  /\ w_response = NoResponse
  /\ \/ \E parts \in Headers :
          /\ ~require_auth(parts).ok
          /\ w_response' = Unauthorized("upload", parts, "none")
          /\ UNCHANGED <<w_tests, w_files, w_storage, w_uploads>>
     \/ \E parts \in Headers, upload \in Uploads :
          /\ require_auth(parts).ok
          /\ Len(w_uploads) < limit_count + 1
          /\ LET out == UploadOutcome(parts, upload, require_auth(parts).user_id)
             IN /\ out.fresh
                /\ w_tests' = out.tests
                /\ w_files' = out.disk
                /\ w_storage' = out.storage
                /\ w_response' = out.response
                /\ w_uploads' = Append(w_uploads, out.response.status)
  /\ UNCHANGED w_users

\* the loop of bulk_upload_tests
RECURSIVE process_files(_, _, _)
process_files(files, user_id, state) ==
  IF files = <<>> THEN state
  ELSE LET done == process_single_file(Head(files), user_id, state.tests, state.disk)
       IN process_files(Tail(files), user_id,
                        [tests |-> done.tests, disk |-> done.disk,
                         fresh |-> state.fresh /\ done.fresh,
                         results |-> Append(state.results, done.result)])

\* POST /api/tests/bulk-upload
BulkUploadTests ==
  /\ w_response = NoResponse
  /\ \/ \E parts \in Headers :
          /\ ~require_auth(parts).ok
          /\ w_response' = Unauthorized("bulk-upload", parts, "none")
          /\ UNCHANGED <<w_tests, w_files>>
     \/ \E parts \in Headers, files \in BulkLists :
          /\ require_auth(parts).ok
          /\ LET user_id == require_auth(parts).user_id
                 done == process_files(files, user_id,
                                       [tests |-> w_tests, disk |-> w_files, fresh |-> TRUE,
                                        results |-> <<>>])
             IN IF files = <<>>
                THEN /\ w_response' = Response("bulk-upload", parts, "none", 400,
                                               "No files provided", TRUE, user_id, <<>>)
                     /\ UNCHANGED <<w_tests, w_files>>
                ELSE /\ done.fresh
                     /\ w_tests' = done.tests
                     /\ w_files' = done.disk
                     /\ w_response' = Response("bulk-upload", parts, "none", 200, "none", TRUE,
                                               user_id, done.results)
  /\ UNCHANGED <<w_users, w_storage, w_uploads>>

\* the one-minute window of the limiter ends
WindowExpires ==
  /\ w_response = NoResponse
  /\ w_uploads # <<>>
  /\ w_uploads' = <<>>
  /\ w_storage' = 0
  /\ UNCHANGED <<w_users, w_tests, w_files, w_response>>

\* the response reaches the client, which may send its next request
ReturnResponse ==
  /\ w_response # NoResponse
  /\ w_response' = NoResponse
  /\ UNCHANGED <<w_users, w_tests, w_files, w_storage, w_uploads>>

\* ------------------------- direct calls of _snap_to_standard_frequency
\* the arguments, in thousandths of a Hz: the standard frequencies, the
\* points a quarter, a half and three quarters of the way between two
\* neighbours, their neighbours one thousandth away, zero, and the values
\* Pow10 hands over for the largest exponents
Between(a, b) ==
  {1000 * a + 250 * (b - a), 1000 * a + 500 * (b - a), 1000 * a + 750 * (b - a),
   1000 * a + 500 * (b - a) - 1, 1000 * a + 500 * (b - a) + 1}

SnapInputs ==
  {1000 * STANDARD_FREQUENCIES[i] : i \in 1..Len(STANDARD_FREQUENCIES)}
    \cup UNION {Between(STANDARD_FREQUENCIES[i], STANDARD_FREQUENCIES[i + 1]) :
                  i \in 1..(Len(STANDARD_FREQUENCIES) - 1)}
    \cup {0, 1, 20000000, HugeMilliHz, PosInf, NaN}

SInit ==
  /\ s_pc = "start"
  /\ s_freq \in SnapInputs
  /\ s_result = 0

SIdle ==
  /\ s_pc = "idle"
  /\ s_freq = 0
  /\ s_result = 0

\* _snap_to_standard_frequency(freq)
CallSnapToStandardFrequency ==
  /\ s_pc = "start"
  /\ s_result' = snap_to_standard_frequency(s_freq)
  /\ s_pc' = "snapped"
  /\ UNCHANGED s_freq

\* _snap_to_standard_frequency on what it returned
CallSnapAgain ==
  /\ s_pc = "snapped"
  /\ s_freq' = 1000 * s_result
  /\ s_result' = snap_to_standard_frequency(1000 * s_result)
  /\ s_pc' = "resnapped"

\* --------------------- the wrapper of rate_limit in concurrent requests
\* the requests of one client that a threaded server handles at a time
MaxConcurrent == 2
Workers == 1..MaxConcurrent

\* the requests the client sends in the window
MaxWindowRequests == 12

RInit ==
  /\ r_pc = [w \in Workers |-> "idle"]
  /\ r_current = [w \in Workers |-> 0]
  /\ r_storage = 0
  /\ r_admitted = 0
  /\ r_limited = 0

RIdle ==
  /\ r_pc = <<>>
  /\ r_current = <<>>
  /\ r_storage = 0
  /\ r_admitted = 0
  /\ r_limited = 0

InFlight == {w \in Workers : r_pc[w] # "idle"}

\* current = storage.get(key) or 0, then the comparison with
\* limit_count: at the limit the request is answered 429
RateGet(w) ==
  /\ r_pc[w] = "idle"
  /\ r_admitted + r_limited + Cardinality(InFlight) < MaxWindowRequests
  /\ r_current' = [r_current EXCEPT ![w] = r_storage]
  /\ IF r_storage >= limit_count
     THEN /\ r_limited' = r_limited + 1
          /\ UNCHANGED r_pc
     ELSE /\ r_pc' = [r_pc EXCEPT ![w] = "incr"]
          /\ UNCHANGED r_limited
  /\ UNCHANGED <<r_storage, r_admitted>>

\* storage.incr(key, expiry=period_seconds), then return f(*args, **kwargs)
RateIncr(w) ==
  /\ r_pc[w] = "incr"
  /\ r_storage' = r_storage + 1
  /\ r_admitted' = r_admitted + 1
  /\ r_pc' = [r_pc EXCEPT ![w] = "idle"]
  /\ UNCHANGED <<r_current, r_limited>>

\* ------------------------------------------------------------ specifications
vars == <<pvars, tvars, cvars, fvars, kvars, wvars, svars, rvars>>

Init == PInit /\ TIdle /\ CIdle /\ FIdle /\ KIdle /\ WIdle /\ SIdle /\ RIdle

Next ==
  \/ (LoadColorImage /\ UNCHANGED <<tvars, cvars, fvars, kvars, wvars, svars, rvars>>)
  \/ (PreprocessImage /\ UNCHANGED <<tvars, cvars, fvars, kvars, wvars, svars, rvars>>)
  \/ (ExtractGraphRegion /\ UNCHANGED <<tvars, cvars, fvars, kvars, wvars, svars, rvars>>)
  \/ (DetectRedMarkers /\ UNCHANGED <<tvars, cvars, fvars, kvars, wvars, svars, rvars>>)
  \/ (DetectBlueMarkers /\ UNCHANGED <<tvars, cvars, fvars, kvars, wvars, svars, rvars>>)
  \/ (CalibrateAxes /\ UNCHANGED <<tvars, cvars, fvars, kvars, wvars, svars, rvars>>)
  \/ (ConvertRightEar /\ UNCHANGED <<tvars, cvars, fvars, kvars, wvars, svars, rvars>>)
  \/ (ConvertLeftEar /\ UNCHANGED <<tvars, cvars, fvars, kvars, wvars, svars, rvars>>)
  \/ (CalculateConfidence /\ UNCHANGED <<tvars, cvars, fvars, kvars, wvars, svars, rvars>>)
  \/ (ExtractMetadata /\ UNCHANGED <<tvars, cvars, fvars, kvars, wvars, svars, rvars>>)
  \/ (ReturnResult /\ UNCHANGED <<tvars, cvars, fvars, kvars, wvars, svars, rvars>>)
  \/ (FileChanged /\ UNCHANGED <<tvars, cvars, fvars, kvars, wvars, svars, rvars>>)

Spec == Init /\ [][Next]_vars

\* direct calls of calibrate_axes and pixels_to_audiogram_values
TransformInit == PIdle /\ TInit /\ CIdle /\ FIdle /\ KIdle /\ WIdle /\ SIdle /\ RIdle

TransformNext ==
  \/ (CallCalibrateAxes /\ UNCHANGED <<pvars, cvars, fvars, kvars, wvars, svars, rvars>>)
  \/ (CallPixelsToAudiogramValues /\ UNCHANGED <<pvars, cvars, fvars, kvars, wvars, svars, rvars>>)

TransformSpec == TransformInit /\ [][TransformNext]_vars

\* direct calls of _calculate_confidence
ConfidenceInit == PIdle /\ TIdle /\ CInit /\ FIdle /\ KIdle /\ WIdle /\ SIdle /\ RIdle

ConfidenceNext == CallCalculateConfidence /\ UNCHANGED <<pvars, tvars, fvars, kvars, wvars, svars, rvars>>

ConfidenceSpec == ConfidenceInit /\ [][ConfidenceNext]_vars

\* the footer parser called on its own
FooterInit == PIdle /\ TIdle /\ CIdle /\ FInit /\ KIdle /\ WIdle /\ SIdle /\ RIdle

FooterNext ==
  \/ (CallParseJacotiFooter /\ UNCHANGED <<pvars, tvars, cvars, kvars, wvars, svars, rvars>>)
  \/ (CallExtractJacotiMetadata /\ UNCHANGED <<pvars, tvars, cvars, kvars, wvars, svars, rvars>>)

FooterSpec == FooterInit /\ [][FooterNext]_vars

\* two invocations run by concurrent workers, their statements interleaved
ConcurrentInit == PIdle /\ TIdle /\ CIdle /\ FIdle /\ KInit /\ WIdle /\ SIdle /\ RIdle

ConcurrentNext ==
  \E i \in Invocations :
    \/ (KLoadColorImage(i) /\ UNCHANGED <<pvars, tvars, cvars, fvars, wvars, svars, rvars>>)
    \/ (KPreprocessImage(i) /\ UNCHANGED <<pvars, tvars, cvars, fvars, wvars, svars, rvars>>)
    \/ (KExtractGraphRegion(i) /\ UNCHANGED <<pvars, tvars, cvars, fvars, wvars, svars, rvars>>)
    \/ (KDetectRedMarkers(i) /\ UNCHANGED <<pvars, tvars, cvars, fvars, wvars, svars, rvars>>)
    \/ (KDetectBlueMarkers(i) /\ UNCHANGED <<pvars, tvars, cvars, fvars, wvars, svars, rvars>>)
    \/ (KCalibrateAxes(i) /\ UNCHANGED <<pvars, tvars, cvars, fvars, wvars, svars, rvars>>)
    \/ (KConvertRightEar(i) /\ UNCHANGED <<pvars, tvars, cvars, fvars, wvars, svars, rvars>>)
    \/ (KConvertLeftEar(i) /\ UNCHANGED <<pvars, tvars, cvars, fvars, wvars, svars, rvars>>)
    \/ (KCalculateConfidence(i) /\ UNCHANGED <<pvars, tvars, cvars, fvars, wvars, svars, rvars>>)
    \/ (KExtractMetadata(i) /\ UNCHANGED <<pvars, tvars, cvars, fvars, wvars, svars, rvars>>)
    \/ (KReturnResult(i) /\ UNCHANGED <<pvars, tvars, cvars, fvars, wvars, svars, rvars>>)

ConcurrentSpec == ConcurrentInit /\ [][ConcurrentNext]_vars

WebInit == PIdle /\ TIdle /\ CIdle /\ FIdle /\ KIdle /\ WInit /\ SIdle /\ RIdle

WebNext ==
  \/ (Register /\ UNCHANGED <<pvars, tvars, cvars, fvars, kvars, w_ocr, w_limiter, svars, rvars>>)
  \/ (ListTests /\ UNCHANGED <<pvars, tvars, cvars, fvars, kvars, w_ocr, w_limiter, svars, rvars>>)
  \/ (GetTest /\ UNCHANGED <<pvars, tvars, cvars, fvars, kvars, w_ocr, w_limiter, svars, rvars>>)
  \/ (UpdateTest /\ UNCHANGED <<pvars, tvars, cvars, fvars, kvars, w_ocr, w_limiter, svars, rvars>>)
  \/ (DeleteTest /\ UNCHANGED <<pvars, tvars, cvars, fvars, kvars, w_ocr, w_limiter, svars, rvars>>)
  \/ (UploadTest /\ Len(w_uploads) < MaxBurst /\ UNCHANGED <<pvars, tvars, cvars, fvars, kvars, w_ocr, w_limiter, svars, rvars>>)
  \/ (BulkUploadTests /\ UNCHANGED <<pvars, tvars, cvars, fvars, kvars, w_ocr, w_limiter, svars, rvars>>)
  \/ (WindowExpires /\ UNCHANGED <<pvars, tvars, cvars, fvars, kvars, w_ocr, w_limiter, svars, rvars>>)
  \/ (ReturnResponse /\ UNCHANGED <<pvars, tvars, cvars, fvars, kvars, w_ocr, w_limiter, svars, rvars>>)

WebSpec == WebInit /\ [][WebNext]_vars

\* the upload route under a burst of requests of one client
LimitInit == WebInit

LimitNext ==
  \/ (Register /\ UNCHANGED <<pvars, tvars, cvars, fvars, kvars, w_ocr, w_limiter, svars, rvars>>)
  \/ (UploadTest /\ UNCHANGED <<pvars, tvars, cvars, fvars, kvars, w_ocr, w_limiter, svars, rvars>>)
  \/ (WindowExpires /\ UNCHANGED <<pvars, tvars, cvars, fvars, kvars, w_ocr, w_limiter, svars, rvars>>)
  \/ (ReturnResponse /\ UNCHANGED <<pvars, tvars, cvars, fvars, kvars, w_ocr, w_limiter, svars, rvars>>)

LimitSpec == LimitInit /\ [][LimitNext]_vars

\* the routes of an application that carries a limiter
ServedInit == PIdle /\ TIdle /\ CIdle /\ FIdle /\ KIdle /\ WInitWithLimiter /\ SIdle /\ RIdle

ServedNext ==
  \/ (Register /\ UNCHANGED <<pvars, tvars, cvars, fvars, kvars, w_ocr, w_limiter, svars, rvars>>)
  \/ (GetTest /\ UNCHANGED <<pvars, tvars, cvars, fvars, kvars, w_ocr, w_limiter, svars, rvars>>)
  \/ (DeleteTest /\ UNCHANGED <<pvars, tvars, cvars, fvars, kvars, w_ocr, w_limiter, svars, rvars>>)
  \/ (UploadTest /\ Len(w_uploads) < MaxBurst /\ UNCHANGED <<pvars, tvars, cvars, fvars, kvars, w_ocr, w_limiter, svars, rvars>>)
  \/ (WindowExpires /\ UNCHANGED <<pvars, tvars, cvars, fvars, kvars, w_ocr, w_limiter, svars, rvars>>)
  \/ (ReturnResponse /\ UNCHANGED <<pvars, tvars, cvars, fvars, kvars, w_ocr, w_limiter, svars, rvars>>)

ServedSpec == ServedInit /\ [][ServedNext]_vars

\* direct calls of _snap_to_standard_frequency
SnapInit == PIdle /\ TIdle /\ CIdle /\ FIdle /\ KIdle /\ WIdle /\ SInit /\ RIdle

SnapNext ==
  \/ (CallSnapToStandardFrequency /\ UNCHANGED <<pvars, tvars, cvars, fvars, kvars, wvars, rvars>>)
  \/ (CallSnapAgain /\ UNCHANGED <<pvars, tvars, cvars, fvars, kvars, wvars, rvars>>)

SnapSpec == SnapInit /\ [][SnapNext]_vars

\* concurrent requests of one client going through the wrapper of rate_limit
RateInit == PIdle /\ TIdle /\ CIdle /\ FIdle /\ KIdle /\ WIdle /\ SIdle /\ RInit

RateNext ==
  \E w \in Workers :
    \/ (RateGet(w) /\ UNCHANGED <<pvars, tvars, cvars, fvars, kvars, wvars, svars>>)
    \/ (RateIncr(w) /\ UNCHANGED <<pvars, tvars, cvars, fvars, kvars, wvars, svars>>)

RateSpec == RateInit /\ [][RateNext]_vars

\* ------------------------------------------------------------------- claims
StandardSet == {STANDARD_FREQUENCIES[i] : i \in 1..Len(STANDARD_FREQUENCIES)}

ResultKeys == {"test_date", "left_ear", "right_ear", "metadata", "confidence"}

AllStages == <<"imread", "preprocess_image", "extract_graph_region", "detect_red",
               "detect_blue", "calibrate_axes", "convert_right", "convert_left",
               "calculate_confidence", "extract_jacoti_metadata">>

\* C1: parse_jacoti_audiogram never partially completes: a returned result has
\* exactly the parts test_date, left_ear, right_ear, metadata and confidence,
\* each holding what its stage computed after every stage ran, and when an
\* error is raised, or while the invocation is still running, no result exists.
C1_NeverPartial ==
  /\ pc = "returned" =>
       /\ DOMAIN result = ResultKeys
       /\ ran = AllStages
       /\ error = NoError
       /\ result.test_date = extracted_metadata.date
       /\ result.left_ear = left_ear_data
       /\ result.right_ear = right_ear_data
       /\ DOMAIN result.metadata = {"location", "device", "time", "raw_footer_text"}
       /\ result.confidence = confidence
       /\ confidence >= 0
  /\ pc # "returned" => result = NoResult
  /\ pc = "raised" => error # NoError /\ ran # AllStages

C1_Witness ==
  /\ pc = "returned"
  /\ Len(result.right_ear) = 3
  /\ Len(result.left_ear) = 2
  /\ result.test_date # NoneText

\* C2: calibrate_axes given graph bounds of zero width or zero height fails
\* with an error and never returns a calibration.
C2_DegenerateBoundsRaise ==
  (t_pc # "idle" /\ (t_graph_bounds.x_max = t_graph_bounds.x_min
                     \/ t_graph_bounds.y_max = t_graph_bounds.y_min))
    => (t_pc = "raised" /\ ~t_calibration.ok)

\* the stages that have completed when the i-th cv2.imread of the invocation runs
StagesBeforeLoad(i) ==
  IF i = 1 THEN <<>> ELSE IF i = 2 THEN SubSeq(AllStages, 1, 1) ELSE SubSeq(AllStages, 1, 9)

\* C3: when the file cannot be read, whichever of the three readers (pipeline
\* entry, image preprocessor, footer metadata extractor) meets it raises a
\* ValueError whose message carries the path; the file is not read again, no
\* later stage runs and no result is returned.
C3_UnreadableRaisesWithPath ==
  \A i \in 1..Len(loads) :
    loads[i] = 0 =>
      /\ i = Len(loads)
      /\ pc = "raised"
      /\ error.type = "ValueError"
      /\ error.msg = "Cannot read image"
      /\ error.path = ImagePath
      /\ ran = StagesBeforeLoad(i)
      /\ result = NoResult

C3_Witness == pc = "raised" /\ Len(loads) = 3 /\ loads[3] = 0 /\ loads[1] # 0

\* C4: within one invocation the image file is loaded exactly once, and
\* region location, marker detection and footer extraction all work on the
\* pixels of that one load.
C4_LoadedOnce ==
  pc = "returned" =>
    /\ Len(loads) = 1
    /\ \A i \in 1..Len(loads) : loads[i] = color_image

\* C5 (as stated): the confidence is exactly 0 when both ear sequences are empty.
C5_EmptyScoresZero ==
  (c_pc = "scored" /\ c_left_ear = <<>> /\ c_right_ear = <<>>) => c_confidence = 0

\* C5 (amended): the confidence is exactly 0.25 when both ear sequences are
\* empty, for every positive expected_count: the count and coverage terms are
\* 0 and the value-validity gate passes vacuously with its full weight.
C5_EmptyScoresQuarter ==
  (c_pc = "scored" /\ c_left_ear = <<>> /\ c_right_ear = <<>>) => c_confidence = 25

C5_Witness == c_pc = "scored" /\ c_left_ear = <<>> /\ c_right_ear = <<>> /\ c_expected_count = 9

\* C6: for any ear sequences and any positive expected_count the confidence
\* returned by _calculate_confidence lies in [0, 1] (0..100 hundredths).
C6_ConfidenceInUnitInterval ==
  c_pc = "scored" => (0 <= c_confidence /\ c_confidence <= 100)

C6_Witness ==
  /\ c_pc = "scored"
  /\ Len(c_left_ear) > c_expected_count
  /\ Len(c_right_ear) > c_expected_count
  /\ c_confidence = 100

PositiveBounds(b) == b.x_max > b.x_min /\ b.y_max > b.y_min

\* C7: for every marker position, inside or outside the graph rectangle, and
\* every calibration built from bounds of positive width and height, the
\* frequency_hz of each returned measurement is one of the nine standard
\* frequencies.
C7_FrequencyIsStandard ==
  (t_pc = "converted" /\ PositiveBounds(t_graph_bounds)) =>
    \A i \in 1..Len(t_values) : t_values[i].frequency_hz \in StandardSet

C7_Witness ==
  /\ t_pc = "converted"
  /\ PositiveBounds(t_graph_bounds)
  /\ Len(t_markers) = 2
  /\ t_markers[1].x > t_graph_bounds.x_max
  /\ t_markers[2].x > t_graph_bounds.x_min /\ t_markers[2].x < t_graph_bounds.x_max
  /\ t_values[2].frequency_hz \notin {64, 16000}

\* C8: under one calibration of positive width and height, of two markers
\* with the same y and x1 < x2 the first has frequency_hz <= the second, and
\* of two markers with the same x and y1 < y2 the first has threshold_db <=
\* the second.
C8_Monotone ==
  (t_pc = "converted" /\ PositiveBounds(t_graph_bounds) /\ Len(t_markers) = 2) =>
    /\ (t_markers[1].y = t_markers[2].y /\ t_markers[1].x < t_markers[2].x)
         => t_values[1].frequency_hz <= t_values[2].frequency_hz
    /\ (t_markers[1].x = t_markers[2].x /\ t_markers[1].y < t_markers[2].y)
         => t_values[1].threshold_db <= t_values[2].threshold_db

\* C9: for any graph bounds of positive width and height, a marker on
\* x_min maps to 64 Hz, on x_max to 16000 Hz, on y_min to 0 dB and on y_max
\* to 120 dB.
C9_CornersReproduceEndpoints ==
  (t_pc = "converted" /\ PositiveBounds(t_graph_bounds)) =>
    \A i \in 1..Len(t_markers) :
      /\ t_markers[i].x = t_graph_bounds.x_min => t_values[i].frequency_hz = 64
      /\ t_markers[i].x = t_graph_bounds.x_max => t_values[i].frequency_hz = 16000
      /\ t_markers[i].y = t_graph_bounds.y_min => t_values[i].threshold_db = 0
      /\ t_markers[i].y = t_graph_bounds.y_max => t_values[i].threshold_db = 1200

C9_Witness ==
  /\ t_pc = "converted"
  /\ PositiveBounds(t_graph_bounds)
  /\ t_graph_bounds.x_min > 0 /\ t_graph_bounds.y_min > 0
  /\ t_graph_bounds.x_max - t_graph_bounds.x_min > 1
  /\ Len(t_markers) = 2
  /\ t_markers[1].x = t_graph_bounds.x_min /\ t_markers[1].y = t_graph_bounds.y_max
  /\ t_markers[2].x = t_graph_bounds.x_max /\ t_markers[2].y = t_graph_bounds.y_min

\* the positions, in order, of the mask contours with positive area
Detected(contours) == {i \in 1..Len(contours) : contours[i].m00 > 0}

\* the n-th element of a set of positions
NthOf(S, n) == CHOOSE i \in S : Cardinality({k \in S : k < i}) = n - 1

\* the measurements of an ear follow the detected contours of its colour
EarFollowsContours(ear, contours) ==
  /\ Len(ear) = Cardinality(Detected(contours))
  /\ \A n \in 1..Len(ear) :
       LET M == contours[NthOf(Detected(contours), n)]
       IN ear[n] = ConvertMarker([x |-> M.m10 \div M.m00, y |-> M.m01 \div M.m00], calibration)

\* C10: in the returned result right_ear holds exactly one measurement per
\* detected red marker and left_ear exactly one per detected blue marker of
\* the colour image, in detection order: none dropped, duplicated or
\* assigned to the other ear.
C10_OneMeasurementPerMarker ==
  pc = "returned" =>
    /\ EarFollowsContours(result.right_ear, Images[color_image].red)
    /\ EarFollowsContours(result.left_ear, Images[color_image].blue)

C10_Witness ==
  /\ pc = "returned"
  /\ Len(result.right_ear) = 3
  /\ Len(result.left_ear) = 2
  /\ result.right_ear[1].frequency_hz < result.right_ear[2].frequency_hz
  /\ result.right_ear[2].frequency_hz < result.right_ear[3].frequency_hz

\* C11: the bounds extract_graph_region hands to the pipeline always have
\* x_max > x_min and y_max > y_min, with a largest contour and with none
\* (the full image extent), so the pipeline never raises the calibrator's
\* division by zero.
C11_PipelineBoundsValid ==
  /\ pc \in {"L40", "L41", "L45", "L48", "L49", "L52", "L58", "L61", "returned"} =>
       /\ PositiveBounds(graph_bounds)
       /\ processed.contours = <<>> =>
            graph_bounds = [x_min |-> 0, x_max |-> processed.w, y_min |-> 0, y_max |-> processed.h]
  /\ pc \in {"L48", "L49", "L52", "L58", "L61", "returned"} => calibration.ok
  /\ pc = "raised" => error.type # "ZeroDivisionError"

C11_Witness ==
  /\ pc = "L48"
  /\ calibration.ok
  /\ \/ processed.contours = <<>>
     \/ graph_bounds.x_max = graph_bounds.x_min + 1

\* the stage has run in this invocation
HasRun(stage) == \E i \in 1..Len(ran) : ran[i] = stage

CaptionAt(text, i, j) ==
  /\ i \in 1..Len(text)
  /\ j \in 1..Len(text)
  /\ FullMatchAt(text, i, j)
  /\ \E k \in (i + 1)..(j - 1) : text[k].k # "blank"

\* the first caption of the text: leftmost prefix, nearest dash
FirstCaption(text) ==
  LET C == {c \in (1..Len(text)) \X (1..Len(text)) : CaptionAt(text, c[1], c[2])}
  IN CHOOSE c \in C : \A e \in C : c[1] < e[1] \/ (c[1] = e[1] /\ c[2] <= e[2])

\* seq is what stands between positions i and j of text without the white
\* space at its two ends
TrimmedBetween(seq, text, i, j) ==
  \E a \in (i + 1)..(j - 1) : \E b \in a..(j - 1) :
    /\ seq = SubSeq(text, a, b)
    /\ text[a].k # "blank"
    /\ text[b].k # "blank"
    /\ \A k \in ((i + 1)..(a - 1)) \cup ((b + 1)..(j - 1)) : text[k].k = "blank"

\* the date of token tok written YYYY-MM-DD
SameDateWithDashes(date, tok) ==
  date = [k |-> "date", y |-> tok.y, m |-> tok.m, d |-> tok.d, s1 |-> "-", s2 |-> "-"]

\* C13: for a text containing a caption 'Made with <device> - <date> <H:MM>'
\* (prefix in any letter case, hyphen or en-dash, one- or two-digit hour,
\* date with dashes or slashes) parse_jacoti_footer returns the date of the
\* caption written YYYY-MM-DD, its time as written, and device and location
\* both equal to the device text without the white space around it.
C13_CaptionParsed ==
  (f_pc = "parsed" /\ \E i, j \in 1..Len(f_text) : CaptionAt(f_text, i, j)) =>
    LET c == FirstCaption(f_text)
    IN /\ f_parsed.matched
       /\ Len(f_parsed.date) = 1
       /\ SameDateWithDashes(f_parsed.date[1], f_text[DateAfter(f_text, c[2])])
       /\ f_parsed.time = <<f_text[TimeAfter(f_text, c[2])]>>
       /\ TrimmedBetween(f_parsed.device, f_text, c[1], c[2])
       /\ f_parsed.location = f_parsed.device

C13_Witness ==
  /\ f_pc = "parsed"
  /\ Len(f_text) = 7
  /\ f_text[1] = [k |-> "made", v |-> "MADE WITH"]
  /\ f_text[2] = Blank
  /\ f_text[3] = Word("Jacoti")
  /\ f_text[4] = [k |-> "dash", v |-> "en-dash"]
  /\ f_text[5] = Blank
  /\ f_text[6] = DateTok("/", "/")
  /\ f_text[7] = [k |-> "time", v |-> "9:05"]
  /\ f_parsed.date = <<DateTok("-", "-")>>
  /\ f_parsed.time = <<[k |-> "time", v |-> "9:05"]>>
  /\ f_parsed.device = <<Word("Jacoti")>>

\* the caption template matches somewhere in the text
TemplateMatches(text) == \E i \in 1..Len(text) : DashFor(text, i) # 0

\* the positions of the date-shaped substrings of the text
DatesIn(text) == {i \in 1..Len(text) : text[i].k = "date"}

\* C14: parse_jacoti_footer uses the date-only fallback only when the caption
\* template does not match: a matching template never yields the fallback's
\* null time, and without a match a text holding a date-shaped substring
\* yields the first such date, a null time, and device and location Unknown.
C14_FallbackOnlyWithoutTemplate ==
  f_pc = "parsed" =>
    /\ TemplateMatches(f_text) =>
         /\ f_parsed.matched
         /\ f_parsed.time # NoneText
         /\ f_parsed.device # UnknownText
    /\ (~TemplateMatches(f_text) /\ DatesIn(f_text) # {}) =>
         LET i == CHOOSE a \in DatesIn(f_text) : \A b \in DatesIn(f_text) : a <= b
         IN /\ f_parsed.matched
            /\ Len(f_parsed.date) = 1
            /\ SameDateWithDashes(f_parsed.date[1], f_text[i])
            /\ f_parsed.time = NoneText
            /\ f_parsed.device = UnknownText
            /\ f_parsed.location = UnknownText

C14_Witness ==
  /\ f_pc = "parsed"
  /\ ~TemplateMatches(f_text)
  /\ Len(f_text) = 4
  /\ f_text[1].k = "made"
  /\ f_text[2].k = "word"
  /\ f_text[3] = DateTok("/", "/")
  /\ f_text[4].k = "time"
  /\ f_parsed.date = <<DateTok("-", "-")>>
  /\ f_parsed.time = NoneText
  /\ f_parsed.device = UnknownText

\* C15: on any recognised footer text extract_jacoti_metadata returns
\* without raising and raw_footer_text is the recognised text; when neither
\* the caption template nor the date pattern matches, parse_jacoti_footer
\* returns None and the date, time, device and location are all None.
C15_MetadataNeverRaises ==
  /\ f_pc = "extracted" =>
       /\ f_metadata.ok
       /\ f_metadata.raw_footer_text = extract_text_from_region(f_text)
       /\ DatesIn(f_text) = {} =>
            /\ f_metadata.date = NoneText
            /\ f_metadata.time = NoneText
            /\ f_metadata.device = NoneText
            /\ f_metadata.location = NoneText
  /\ (f_pc = "parsed" /\ DatesIn(f_text) = {}) => f_parsed = [matched |-> FALSE]

C15_Witness ==
  /\ f_pc = "extracted"
  /\ DatesIn(f_text) = {}
  /\ Len(f_text) = 4
  /\ f_text[1].k = "made"
  /\ f_text[2].k = "word"
  /\ f_text[3].k = "dash"
  /\ f_text[4].k = "time"
  /\ f_metadata.raw_footer_text = f_text
  /\ f_metadata.date = NoneText
  /\ f_metadata.device = NoneText

\* C16: in every interleaving of two invocations on different files, what an
\* invocation returns or raises is what it returns or raises when run alone
\* on its file, the other invocation's outcome is untouched, and the
\* module-level STANDARD_FREQUENCIES list keeps its value.
C16_InvocationsIndependent ==
  /\ k_standard_frequencies = STANDARD_FREQUENCIES
  /\ \A i \in Invocations :
       /\ k_pc[i] = "returned" =>
            /\ ~AloneOutcome(k_file[i]).raised
            /\ k_result[i] = AloneOutcome(k_file[i]).result
            /\ k_error[i] = NoError
       /\ k_pc[i] = "raised" =>
            /\ AloneOutcome(k_file[i]).raised
            /\ k_error[i] = AloneOutcome(k_file[i]).error
            /\ k_result[i] = NoResult
       /\ k_pc[i] \notin {"returned", "raised"} => (k_result[i] = NoResult /\ k_error[i] = NoError)

C16_Witness ==
  /\ k_pc[1] = "returned"
  /\ k_pc[2] = "returned"
  /\ k_file[1] = 1
  /\ k_file[2] = 5
  /\ Len(k_result[1].right_ear) = 3
  /\ Len(k_result[2].right_ear) = 1
  /\ k_result[1] # k_result[2]

ProtectedRoutes == {"list", "get", "upload", "bulk-upload", "update", "delete"}

\* the request carries 'Authorization: Bearer <token>' with a validly signed,
\* unexpired token
Authentic(parts) ==
  /\ Len(parts) = 2
  /\ parts[1] = "Bearer"
  /\ parts[2].jwt /\ parts[2].signed /\ ~parts[2].expired

StoredData == <<w_users, w_tests, w_files, w_storage>>

Caller(response) == response.parts[2].user_id

NoDuplicateEmails ==
  \A i, j \in 1..Len(w_users) : w_users[i].email = w_users[j].email => i = j

C20_EleventhUploadLimited ==
  \A k \in 1..Len(w_uploads) :
    /\ k <= limit_count => w_uploads[k] \in {200, 400, 500}
    /\ k = limit_count + 1 => w_uploads[k] = 429

InvalidKinds == {"bad_extension", "empty", "bad_mime"}

ScoreNumerator ==
  LET both == c_left_ear \o c_right_ear
      distinct == Cardinality({both[i].frequency_hz : i \in 1..Len(both)})
      in_range == \A i \in 1..Len(both) :
                    both[i].threshold_db >= 0 /\ both[i].threshold_db <= 1200
  IN 25 * (IF Len(c_left_ear) < c_expected_count THEN Len(c_left_ear) ELSE c_expected_count)
     + 25 * (IF Len(c_right_ear) < c_expected_count THEN Len(c_right_ear) ELSE c_expected_count)
     + 25 * (IF distinct < c_expected_count THEN distinct ELSE c_expected_count)
     + (IF in_range THEN 25 * c_expected_count ELSE 0)

\* C23: the confidence returned by _calculate_confidence is the sum of the
\* four terms rounded to two decimals: it is a whole number of hundredths at
\* most half a hundredth away from the sum, and the validity term is in the
\* sum exactly when every threshold of both ears lies in [0, 120].
C23_ConfidenceIsSumOfTerms ==
  c_pc = "scored" =>
    2 * Abs(c_confidence * c_expected_count - ScoreNumerator) <= c_expected_count

C23_Witness ==
  /\ c_pc = "scored"
  /\ c_expected_count = 2
  /\ Len(c_left_ear) = 1
  /\ Len(c_right_ear) = 2
  /\ c_left_ear[1].frequency_hz = c_right_ear[1].frequency_hz
  /\ c_right_ear[2].frequency_hz # c_right_ear[1].frequency_hz
  /\ c_right_ear[2].threshold_db > 1200
  /\ c_confidence = 62

\* the standard frequency nearest to a frequency in thousandths of a Hz, the
\* earlier one of two that are equally far; PosInf stands for the doubles
\* above 2^67, of which the finite ones are nearest to the last entry
NearestStandard(freq) ==
  IF freq = PosInf THEN STANDARD_FREQUENCIES[Len(STANDARD_FREQUENCIES)]
  ELSE LET n == Len(STANDARD_FREQUENCIES)
           far(i) == Abs(freq - 1000 * STANDARD_FREQUENCIES[i])
           best == CHOOSE i \in 1..n :
                     /\ \A k \in 1..n : far(i) <= far(k)
                     /\ \A k \in 1..(i - 1) : far(k) > far(i)
       IN STANDARD_FREQUENCIES[best]

\* C24: _snap_to_standard_frequency returns the standard frequency whose
\* absolute difference from the argument is smallest, the earlier one in the
\* list when two are equally distant, and returns a standard frequency
\* unchanged.
C24_SnapsToNearest ==
  /\ (s_pc = "snapped" /\ s_freq # NaN) => s_result = NearestStandard(s_freq)
  /\ s_pc = "resnapped" => 1000 * s_result = s_freq

EarsWithMarkers == {<<red_markers, right_ear_data>>, <<blue_markers, left_ear_data>>}

AllInRange(ear) ==
  \A i \in 1..Len(ear) : ear[i].threshold_db >= 10 * db_min /\ ear[i].threshold_db <= 10 * db_max

\* C26: when the needs_review computed from the confidence of a result is
\* false, both ears of the result hold at least one measurement and every
\* threshold lies in [0, 120]; an empty ear or one threshold outside the
\* range makes needs_review true, for every positive expected_count.
C26_NoReviewMeansCompleteAndValid ==
  c_pc = "scored" =>
    /\ ~needs_review(c_confidence) =>
         /\ c_left_ear # <<>> /\ c_right_ear # <<>>
         /\ AllInRange(c_left_ear) /\ AllInRange(c_right_ear)
    /\ (c_left_ear = <<>> \/ c_right_ear = <<>>
          \/ ~AllInRange(c_left_ear) \/ ~AllInRange(c_right_ear)) => needs_review(c_confidence)

C26_Witness ==
  /\ c_pc = "scored"
  /\ ~needs_review(c_confidence)
  /\ c_confidence = 88
  /\ Len(c_left_ear) = 1
  /\ Len(c_right_ear) = 2

ReadingsAt(measurements, freq) ==
  {i \in 1..Len(measurements) : measurements[i].frequency_hz = freq}

\* m is the median of the thresholds at the positions I: the middle one of
\* an odd number, the mean of the two middle ones of an even number
IsMedian(m, measurements, I) ==
  LET t(i) == measurements[i].threshold_db
      n == Cardinality(I)
      below(v) == Cardinality({i \in I : t(i) < v})
      upto(v) == Cardinality({i \in I : t(i) <= v})
  IN IF n % 2 = 1
     THEN \E i \in I : t(i) = m /\ below(m) <= n \div 2 /\ upto(m) >= n \div 2 + 1
     ELSE \E i, j \in I :
            /\ i # j
            /\ t(i) <= t(j)
            /\ 2 * m = t(i) + t(j)
            /\ below(t(i)) <= n \div 2 - 1 /\ upto(t(i)) >= n \div 2
            /\ below(t(j)) <= n \div 2 /\ upto(t(j)) >= n \div 2 + 1

\* kept is sent with one entry per distinct frequency, in ascending order of
\* frequency, each with the median of the thresholds sent for it
IsDeduplicated(kept, sent) ==
  /\ {kept[i].frequency_hz : i \in 1..Len(kept)} = {sent[i].frequency_hz : i \in 1..Len(sent)}
  /\ \A i \in 1..(Len(kept) - 1) : kept[i].frequency_hz < kept[i + 1].frequency_hz
  /\ \A i \in 1..Len(kept) :
       IsMedian(kept[i].threshold_db, sent, ReadingsAt(sent, kept[i].frequency_hz))

\* C28: every stored test has at most one measurement per ear and frequency,
\* in ascending order of frequency; the measurements stored by an accepted
\* PUT are those of _deduplicate_measurements on the ears sent: one entry per
\* distinct frequency with the median of its thresholds; and
\* _deduplicate_measurements returns what is stored unchanged.
C28_MeasurementsDeduplicated ==
  /\ \A t \in w_tests : \A ear \in {t.left_ear, t.right_ear} :
       /\ \A i \in 1..(Len(ear) - 1) : ear[i].frequency_hz < ear[i + 1].frequency_hz
       /\ deduplicate_measurements(ear) = ear
  /\ (w_response.route = "update" /\ w_response.status = 200) =>
       \E t \in w_tests :
         /\ t.id = w_response.arg
         /\ w_response.body = <<t>>
         /\ IsDeduplicated(t.left_ear, w_response.data.left_ear)
         /\ IsDeduplicated(t.right_ear, w_response.data.right_ear)

C28_Witness ==
  /\ w_response.route = "update"
  /\ w_response.status = 200
  /\ Len(w_response.data.left_ear) = 5
  /\ w_response.body[1].left_ear = <<[frequency_hz |-> 250, threshold_db |-> 501],
                                     [frequency_hz |-> 500, threshold_db |-> 210]>>
  /\ \E t \in w_tests : t.id # w_response.arg /\ Len(t.right_ear) > 1

\* C29: a PUT on a test of the caller whose body lacks test_date, left_ear or
\* right_ear is not answered 200 and leaves the rows of the test, its
\* measurements and everything else stored as they were.
C29_IncompleteUpdateChangesNothing ==
  [][(/\ w_response = NoResponse
      /\ w_response'.route = "update"
      /\ w_response'.ran
      /\ OwnTest(w_response'.arg, w_response'.user_id) # {}
      /\ ~({"test_date", "left_ear", "right_ear"} \subseteq w_response'.data.has))
       => /\ w_response'.status >= 400
          /\ w_tests' = w_tests
          /\ w_files' = w_files
          /\ w_users' = w_users]_vars

C29_Witness ==
  /\ w_response.route = "update"
  /\ w_response.status = 500
  /\ w_response.data.has = {"test_date", "left_ear"}
  /\ \E t \in w_tests :
       /\ t.id = w_response.arg
       /\ t.user_id = w_response.user_id
       /\ t.left_ear # <<>>
       /\ t.right_ear # <<>>

====
